---------------------------- MODULE Spec2Model ----------------------------
(***************************************************************************)
(* Model of the cross-validated evaluation pipeline of the notebook        *)
(* "Predicting Cancellation Rates" (src/Predicting Cancellation            *)
(* Rates/notebook.ipynb).                                                  *)
(*                                                                         *)
(* The notebook is a linear script over scikit-learn objects:              *)
(*   split        = KFold(n_splits=4, shuffle=True, random_state=1234)     *)
(*   models       = [Decision Tree, Random Forest]                         *)
(*   preprocessor = ColumnTransformer(num: SimpleImputer(constant),        *)
(*                    cat: SimpleImputer(constant,"Unknown") + OneHot)     *)
(*   for name, model in models:                                            *)
(*       steps = Pipeline(preprocessor, model)                             *)
(*       cv_results = cross_val_score(steps, X, y, cv=split, n_jobs=-1)    *)
(*       print(summary of cv_results)                                      *)
(*                                                                         *)
(* Every operator below is the behaviour of the library call made at the   *)
(* mapped line of the notebook, with the arguments the notebook gives it   *)
(* (and the library defaults for the arguments it does not give).          *)
(* Row indices, fold indices and array positions are 0-based as in the     *)
(* code; a TLA+ sequence s holds array element p at s[p+1].                *)
(* A value that may be missing (NaN, None) is a sequence: <<>> is missing, *)
(* <<v>> is the value v.                                                   *)
(***************************************************************************)
EXTENDS Integers, Sequences, FiniteSets, TLC

\* ------------------------------------------------------------- bounds
\* Largest number of dataset rows the script is run on.
MaxRows == 4
\* Largest number of rows the splitter specification splits.
MaxSplitRows == 6
\* Number of split calls explored by the splitter specification.
MaxCalls == 2
\* Largest number of rows a preprocessor is fitted on in the preprocessor
\* specification.
MaxFitRows == 2
\* Largest number of dataset rows the script is run on with a splitter that
\* shuffles without a seed: such a shuffle can return every order of the
\* rows, and it returns one for each classifier.
MaxUnseededRows == 2
\* Largest number of rows the splitter specification shuffles without a
\* seed.
MaxUnseededSplitRows == 3

\* The one element of a singleton set: Only({e(v) : v \in {d}}) is e with d
\* evaluated once, however often e uses it.
Only(S) == CHOOSE x \in S : TRUE

\* Seeds explored: the notebook's random_state and one other.
Seeds == {1234, 0}

\* The values of the random_state argument explored: None and the seeds.
RandomStates == {<< >>} \cup {<< s >> : s \in Seeds}

\* ------------------------------------------------- numpy RandomState
\* The low 31 bits of the first outputs of MT19937 seeded by
\* init_genrand(1234): the bits under the mask of randint(MAX_INT).
MT19937_low31 ==
  <<
    822569775, 2137449171, 524453158, 1365105717, 1880026316, 481516916,
    1225605784, 1165481977, 1202486927, 1549064881, 1170776343, 646980841,
    1187404954, 852631582, 1296531115, 1353614494, 1967693548, 682106748,
    1614618394, 498808182, 1536813498, 55437432, 4274032, 2090933724,
    787967301, 1421700432, 913548233, 1299827071, 1590214902, 421988862,
    262835631, 240490034, 13242096, 1901221627, 59135052, 95107365,
    1171781410, 1248669606, 1643431418, 1058256067, 1567173351, 1023433867,
    495622784, 1671713513, 323759947, 2092247376, 1584087043, 504415490,
    1860322579, 1691282316, 650164161, 1944459723, 1705972083, 163843691,
    1240086522, 1248212433, 1360800782, 2000751859, 292481479, 1869737788,
    1585390058, 298408555, 1873350574, 2015452060, 1297714257, 174187351,
    617473805, 206671988, 877294176, 1986751372, 878670021, 1616935933,
    939704945, 1408371679, 1824792549, 1346596511, 1898980089, 629437436,
    1757998681, 203695188, 256878637, 2125826576, 791506985, 812760904,
    203389368, 1844885740, 751107910, 1795796920, 406410326, 2041405356,
    143066074, 1705110483, 186075439, 1127970481, 263853074, 1847486037,
    1415915182, 1136151010, 12742437, 428340589
  >>

\* The low 31 bits of the first output of MT19937 seeded by
\* init_genrand(seed), for the random_state of the decision tree and those
\* the forest gives its trees: the bits under the mask of
\* randint(0, RAND_R_MAX).
MT19937_first31(seed) ==
  CASE seed = 1234 -> 822569775
    [] seed = 822569775 -> 1104582442
    [] seed = 2137449171 -> 1767109625
    [] seed = 524453158 -> 1717222896
    [] seed = 1365105717 -> 1306670348
    [] seed = 1880026316 -> 1601546836
    [] seed = 481516916 -> 1306655851
    [] seed = 1225605784 -> 1465932409
    [] seed = 1165481977 -> 1679563341
    [] seed = 1202486927 -> 1946460620
    [] seed = 1549064881 -> 937774242
    [] seed = 1170776343 -> 586368601
    [] seed = 646980841 -> 1186554207
    [] seed = 1187404954 -> 1682102337
    [] seed = 852631582 -> 1818076382
    [] seed = 1296531115 -> 430832657
    [] seed = 1353614494 -> 1220286131
    [] seed = 1967693548 -> 1046778960
    [] seed = 682106748 -> 1596218140
    [] seed = 1614618394 -> 283536724
    [] seed = 498808182 -> 785531198
    [] seed = 1536813498 -> 18229287
    [] seed = 55437432 -> 1903026410
    [] seed = 4274032 -> 1055983485
    [] seed = 2090933724 -> 1580417108
    [] seed = 787967301 -> 1932974277
    [] seed = 1421700432 -> 1012116030
    [] seed = 913548233 -> 1393613098
    [] seed = 1299827071 -> 1133242901
    [] seed = 1590214902 -> 1467435495
    [] seed = 421988862 -> 1983931908
    [] seed = 262835631 -> 1630704042
    [] seed = 240490034 -> 839103907
    [] seed = 13242096 -> 1627955938
    [] seed = 1901221627 -> 1461607606
    [] seed = 59135052 -> 1191810207
    [] seed = 95107365 -> 833158925
    [] seed = 1171781410 -> 1176288385
    [] seed = 1248669606 -> 1362738762
    [] seed = 1643431418 -> 1546739364
    [] seed = 1058256067 -> 1243605376
    [] seed = 1567173351 -> 1433287214
    [] seed = 1023433867 -> 1377241629
    [] seed = 495622784 -> 920346778
    [] seed = 1671713513 -> 796232613
    [] seed = 323759947 -> 434715586
    [] seed = 2092247376 -> 1047967885
    [] seed = 1584087043 -> 101542421
    [] seed = 504415490 -> 1370893372
    [] seed = 1860322579 -> 1783041487
    [] seed = 1691282316 -> 1526462785
    [] seed = 650164161 -> 1434344335
    [] seed = 1944459723 -> 622712744
    [] seed = 1705972083 -> 1576125908
    [] seed = 163843691 -> 1722132911
    [] seed = 1240086522 -> 1206588421
    [] seed = 1248212433 -> 808673804
    [] seed = 1360800782 -> 1275119305
    [] seed = 2000751859 -> 1365146321
    [] seed = 292481479 -> 2023847515
    [] seed = 1869737788 -> 169527474
    [] seed = 1585390058 -> 734106197
    [] seed = 298408555 -> 1389689254
    [] seed = 1873350574 -> 1644957074
    [] seed = 2015452060 -> 590280051
    [] seed = 1297714257 -> 861341136
    [] seed = 174187351 -> 1167018335
    [] seed = 617473805 -> 1920229519
    [] seed = 206671988 -> 2104120990
    [] seed = 877294176 -> 1559485108
    [] seed = 1986751372 -> 223786950
    [] seed = 878670021 -> 1327237982
    [] seed = 1616935933 -> 733472565
    [] seed = 939704945 -> 2119912743
    [] seed = 1408371679 -> 419409879
    [] seed = 1824792549 -> 83751238
    [] seed = 1346596511 -> 1238205977
    [] seed = 1898980089 -> 718952424
    [] seed = 629437436 -> 922567782
    [] seed = 1757998681 -> 670448805
    [] seed = 203695188 -> 651564765
    [] seed = 256878637 -> 789752980
    [] seed = 2125826576 -> 349841474
    [] seed = 791506985 -> 1765012237
    [] seed = 812760904 -> 413515056
    [] seed = 203389368 -> 1567353372
    [] seed = 1844885740 -> 1388953931
    [] seed = 751107910 -> 1518870405
    [] seed = 1795796920 -> 85583178
    [] seed = 406410326 -> 1987060888
    [] seed = 2041405356 -> 1076348845
    [] seed = 143066074 -> 697442861
    [] seed = 1705110483 -> 848256967
    [] seed = 186075439 -> 2060542123
    [] seed = 1127970481 -> 1422332259
    [] seed = 263853074 -> 2101486096
    [] seed = 1847486037 -> 502338595
    [] seed = 1415915182 -> 573434893
    [] seed = 1136151010 -> 1372831670
    [] seed = 12742437 -> 415910245
    [] seed = 428340589 -> 1570261865

\* The low four bits of the first outputs of MT19937 seeded by
\* init_genrand(seed), which is what RandomState(seed) draws from, for the
\* seeds of the splitter and the seeds the forest gives its trees.  Only the
\* bits under the rejection mask of a bounded draw are read, and the mask is
\* at most 15 for bounds up to 16.
MT19937_low4(seed) ==
  CASE seed = 1234 ->
       <<
         15, 3, 6, 5, 12, 4, 8, 9, 15, 1, 7, 9, 10, 14, 11, 14,
         12, 12, 10, 6, 10, 8, 0, 12, 5, 0, 9, 15, 6, 14, 15, 2,
         0, 11, 12, 5, 2, 6, 10, 3, 7, 11, 0, 9, 11, 0, 3, 2
       >>
    [] seed = 0 ->
       <<
         12, 15, 5, 0, 3, 11, 3, 7, 9, 3, 5, 2, 4, 7, 6, 8,
         8, 12, 10, 1, 6, 7, 7, 14, 8, 1, 5, 9, 13, 8, 9, 4,
         3, 0, 3, 5, 14, 15, 15, 0, 2, 3, 8, 1, 3, 13, 3, 3
       >>
    [] seed = 822569775 ->
       <<
         10, 4, 12, 6, 5, 15, 12, 7, 7, 5, 2, 9, 10, 7, 3, 14,
         13, 14, 12, 3
       >>
    [] seed = 2137449171 ->
       <<
         9, 15, 8, 0, 13, 3, 0, 5, 0, 15, 5, 8, 5, 2, 7, 13,
         14, 3, 4, 4
       >>
    [] seed = 524453158 ->
       <<
         0, 8, 1, 6, 10, 9, 8, 13, 5, 7, 10, 6, 1, 6, 13, 13,
         9, 8, 1, 8
       >>
    [] seed = 1365105717 ->
       <<
         12, 12, 10, 10, 10, 15, 1, 8, 6, 9, 12, 7, 12, 0, 2, 4,
         1, 10, 10, 12
       >>
    [] seed = 1880026316 ->
       <<
         4, 15, 11, 1, 2, 13, 1, 7, 3, 3, 1, 4, 12, 7, 10, 4,
         12, 6, 11, 12
       >>
    [] seed = 481516916 ->
       <<
         11, 13, 0, 9, 5, 1, 3, 2, 14, 12, 9, 4, 0, 7, 3, 7,
         10, 9, 1, 2
       >>
    [] seed = 1225605784 ->
       <<
         9, 3, 8, 4, 9, 5, 6, 4, 2, 8, 12, 9, 7, 6, 8, 0,
         3, 2, 8, 7
       >>
    [] seed = 1165481977 ->
       <<
         13, 15, 5, 15, 9, 6, 6, 7, 13, 14, 11, 15, 8, 0, 14, 14,
         13, 8, 0, 3
       >>
    [] seed = 1202486927 ->
       <<
         12, 7, 13, 1, 10, 9, 13, 8, 0, 11, 0, 10, 2, 8, 5, 7,
         2, 15, 5, 10
       >>
    [] seed = 1549064881 ->
       <<
         2, 10, 12, 10, 9, 0, 14, 0, 8, 10, 14, 6, 12, 9, 15, 14,
         12, 12, 0, 11
       >>
    [] seed = 1170776343 ->
       <<
         9, 8, 11, 4, 5, 8, 9, 13, 15, 1, 12, 0, 13, 8, 14, 5,
         6, 12, 8, 9
       >>
    [] seed = 646980841 ->
       <<
         15, 9, 3, 15, 8, 7, 14, 1, 14, 13, 4, 9, 5, 7, 11, 2,
         2, 4, 9, 3
       >>
    [] seed = 1187404954 ->
       <<
         1, 1, 5, 14, 2, 2, 7, 7, 3, 9, 13, 9, 3, 5, 7, 0,
         14, 9, 7, 1
       >>
    [] seed = 852631582 ->
       <<
         14, 10, 8, 4, 11, 1, 15, 0, 15, 15, 10, 7, 0, 14, 4, 0,
         4, 6, 6, 0
       >>
    [] seed = 1296531115 ->
       <<
         1, 5, 4, 9, 3, 11, 15, 9, 9, 14, 0, 2, 8, 14, 4, 14,
         6, 5, 1, 5
       >>
    [] seed = 1353614494 ->
       <<
         3, 2, 3, 6, 11, 13, 3, 0, 6, 14, 13, 13, 10, 1, 5, 5,
         9, 3, 15, 14
       >>
    [] seed = 1967693548 ->
       <<
         0, 14, 12, 11, 12, 12, 7, 12, 14, 8, 13, 8, 9, 3, 11, 4,
         11, 5, 4, 15
       >>
    [] seed = 682106748 ->
       <<
         12, 6, 14, 2, 2, 2, 4, 8, 13, 9, 5, 10, 11, 5, 7, 13,
         12, 0, 9, 15
       >>
    [] seed = 1614618394 ->
       <<
         4, 13, 14, 0, 14, 13, 10, 11, 10, 13, 10, 10, 6, 10, 9, 2,
         14, 2, 7, 5
       >>
    [] seed = 498808182 ->
       <<
         14, 12, 13, 13, 14, 15, 11, 13, 10, 0, 9, 1, 8, 14, 3, 6,
         12, 1, 15, 14
       >>
    [] seed = 1536813498 ->
       <<
         7, 9, 7, 0, 12, 14, 2, 3, 11, 10, 11, 1, 7, 7, 12, 14,
         13, 0, 6, 3
       >>
    [] seed = 55437432 ->
       <<
         10, 2, 7, 1, 5, 4, 11, 11, 7, 0, 7, 8, 7, 4, 9, 11,
         15, 12, 9, 4
       >>
    [] seed = 4274032 ->
       <<
         13, 1, 15, 7, 4, 6, 14, 6, 4, 9, 6, 11, 11, 12, 14, 9,
         12, 10, 8, 15
       >>
    [] seed = 2090933724 ->
       <<
         4, 12, 2, 10, 14, 9, 5, 2, 13, 12, 13, 4, 11, 10, 10, 5,
         2, 3, 12, 2
       >>
    [] seed = 787967301 ->
       <<
         5, 15, 13, 12, 9, 5, 6, 1, 9, 6, 3, 5, 14, 10, 9, 13,
         9, 11, 15, 3
       >>
    [] seed = 1421700432 ->
       <<
         14, 11, 12, 1, 12, 3, 15, 3, 5, 8, 10, 0, 10, 9, 14, 8,
         5, 5, 0, 5
       >>
    [] seed = 913548233 ->
       <<
         10, 10, 13, 14, 11, 15, 7, 8, 11, 3, 8, 10, 7, 3, 10, 15,
         2, 11, 15, 12
       >>
    [] seed = 1299827071 ->
       <<
         5, 2, 14, 1, 2, 8, 3, 5, 2, 7, 12, 7, 11, 9, 12, 3,
         0, 4, 8, 6
       >>
    [] seed = 1590214902 ->
       <<
         7, 13, 5, 5, 3, 6, 8, 10, 13, 10, 8, 10, 5, 0, 2, 9,
         5, 2, 1, 11
       >>
    [] seed = 421988862 ->
       <<
         4, 5, 12, 10, 12, 6, 0, 11, 5, 15, 9, 2, 1, 9, 8, 0,
         14, 6, 6, 14
       >>
    [] seed = 262835631 ->
       <<
         10, 8, 7, 4, 1, 2, 5, 4, 12, 2, 9, 1, 1, 9, 0, 8,
         15, 10, 0, 4
       >>
    [] seed = 240490034 ->
       <<
         3, 2, 0, 4, 7, 7, 1, 6, 10, 0, 6, 0, 8, 0, 7, 1,
         14, 9, 6, 14
       >>
    [] seed = 13242096 ->
       <<
         2, 6, 1, 15, 5, 14, 4, 3, 4, 3, 1, 10, 8, 5, 4, 14,
         4, 3, 2, 0
       >>
    [] seed = 1901221627 ->
       <<
         6, 8, 7, 11, 8, 15, 15, 7, 10, 0, 4, 6, 12, 4, 1, 10,
         5, 9, 10, 14
       >>
    [] seed = 59135052 ->
       <<
         15, 9, 13, 14, 4, 8, 13, 2, 7, 8, 7, 11, 8, 15, 3, 8,
         4, 13, 10, 14
       >>
    [] seed = 95107365 ->
       <<
         13, 4, 2, 8, 10, 11, 15, 6, 5, 0, 14, 3, 15, 14, 2, 15,
         11, 7, 8, 1
       >>
    [] seed = 1171781410 ->
       <<
         1, 5, 0, 6, 9, 3, 6, 6, 7, 11, 13, 12, 13, 1, 9, 11,
         5, 1, 6, 11
       >>
    [] seed = 1248669606 ->
       <<
         10, 3, 11, 2, 14, 11, 15, 14, 2, 12, 9, 4, 0, 3, 6, 10,
         5, 0, 9, 0
       >>
    [] seed = 1643431418 ->
       <<
         4, 14, 14, 12, 11, 9, 14, 7, 14, 14, 13, 15, 15, 11, 6, 15,
         9, 6, 11, 12
       >>
    [] seed = 1058256067 ->
       <<
         0, 5, 13, 0, 3, 1, 7, 12, 7, 12, 9, 11, 12, 15, 3, 2,
         5, 14, 1, 7
       >>
    [] seed = 1567173351 ->
       <<
         14, 7, 13, 7, 15, 14, 6, 13, 13, 3, 7, 13, 10, 0, 11, 4,
         5, 12, 1, 14
       >>
    [] seed = 1023433867 ->
       <<
         13, 9, 4, 5, 2, 12, 12, 6, 6, 5, 7, 6, 14, 7, 8, 11,
         8, 15, 14, 11
       >>
    [] seed = 495622784 ->
       <<
         10, 13, 3, 12, 12, 3, 14, 7, 10, 9, 13, 12, 8, 5, 3, 10,
         2, 4, 12, 1
       >>
    [] seed = 1671713513 ->
       <<
         5, 2, 2, 15, 11, 9, 1, 11, 1, 14, 15, 6, 7, 13, 7, 7,
         15, 11, 2, 9
       >>
    [] seed = 323759947 ->
       <<
         2, 4, 3, 2, 11, 8, 14, 2, 13, 12, 8, 1, 10, 4, 13, 2,
         14, 8, 1, 3
       >>
    [] seed = 2092247376 ->
       <<
         13, 7, 15, 12, 9, 11, 8, 13, 0, 8, 13, 9, 15, 13, 10, 3,
         0, 15, 11, 1
       >>
    [] seed = 1584087043 ->
       <<
         5, 0, 12, 14, 1, 15, 1, 10, 7, 3, 10, 0, 5, 7, 2, 13,
         9, 3, 6, 12
       >>
    [] seed = 504415490 ->
       <<
         12, 11, 7, 9, 0, 0, 11, 13, 0, 4, 9, 11, 3, 9, 12, 7,
         13, 1, 12, 7
       >>
    [] seed = 1860322579 ->
       <<
         15, 4, 2, 8, 1, 0, 6, 15, 9, 0, 13, 8, 7, 15, 13, 1,
         3, 0, 12, 7
       >>
    [] seed = 1691282316 ->
       <<
         1, 1, 1, 7, 2, 1, 12, 6, 3, 5, 6, 9, 4, 4, 14, 14,
         12, 13, 0, 9
       >>
    [] seed = 650164161 ->
       <<
         15, 10, 4, 11, 3, 2, 4, 13, 11, 9, 4, 14, 5, 6, 4, 10,
         13, 0, 10, 6
       >>
    [] seed = 1944459723 ->
       <<
         8, 14, 11, 15, 0, 9, 11, 1, 7, 15, 0, 0, 7, 12, 7, 10,
         3, 8, 3, 1
       >>
    [] seed = 1705972083 ->
       <<
         4, 2, 15, 5, 7, 12, 3, 3, 5, 8, 10, 6, 11, 15, 14, 9,
         8, 7, 8, 12
       >>
    [] seed = 163843691 ->
       <<
         15, 5, 10, 5, 15, 14, 10, 6, 0, 5, 11, 2, 4, 5, 1, 5,
         4, 8, 0, 0
       >>
    [] seed = 1240086522 ->
       <<
         5, 15, 8, 1, 1, 8, 10, 7, 7, 3, 4, 11, 7, 4, 14, 1,
         7, 7, 8, 0
       >>
    [] seed = 1248212433 ->
       <<
         12, 3, 6, 5, 7, 7, 14, 9, 0, 7, 1, 10, 10, 4, 1, 13,
         7, 5, 15, 15
       >>
    [] seed = 1360800782 ->
       <<
         9, 1, 5, 12, 14, 9, 8, 12, 9, 7, 9, 15, 9, 9, 6, 15,
         15, 13, 0, 2
       >>
    [] seed = 2000751859 ->
       <<
         1, 13, 2, 5, 4, 10, 6, 12, 3, 15, 2, 12, 7, 3, 9, 2,
         8, 4, 6, 10
       >>
    [] seed = 292481479 ->
       <<
         11, 10, 1, 15, 13, 9, 6, 13, 2, 11, 12, 14, 11, 9, 9, 6,
         11, 2, 10, 6
       >>
    [] seed = 1869737788 ->
       <<
         2, 14, 5, 0, 13, 12, 10, 12, 9, 7, 14, 13, 15, 1, 15, 10,
         6, 4, 7, 5
       >>
    [] seed = 1585390058 ->
       <<
         5, 14, 14, 6, 4, 10, 1, 3, 6, 14, 2, 15, 8, 13, 1, 13,
         15, 10, 8, 7
       >>
    [] seed = 298408555 ->
       <<
         6, 5, 4, 8, 15, 10, 6, 1, 10, 8, 4, 15, 14, 6, 13, 11,
         10, 1, 9, 0
       >>
    [] seed = 1873350574 ->
       <<
         2, 11, 15, 3, 15, 9, 4, 3, 2, 6, 11, 13, 4, 6, 1, 9,
         3, 0, 4, 6
       >>
    [] seed = 2015452060 ->
       <<
         3, 2, 14, 2, 4, 10, 0, 2, 10, 3, 11, 2, 3, 2, 13, 9,
         8, 0, 5, 9
       >>
    [] seed = 1297714257 ->
       <<
         0, 8, 8, 0, 0, 8, 6, 15, 3, 6, 15, 7, 1, 15, 7, 9,
         8, 11, 14, 12
       >>
    [] seed = 174187351 ->
       <<
         15, 6, 15, 2, 10, 13, 4, 11, 1, 4, 8, 7, 0, 2, 14, 0,
         4, 6, 15, 15
       >>
    [] seed = 617473805 ->
       <<
         15, 1, 1, 8, 10, 2, 7, 7, 0, 7, 9, 9, 3, 4, 10, 6,
         4, 0, 0, 9
       >>
    [] seed = 206671988 ->
       <<
         14, 8, 11, 12, 15, 4, 10, 1, 3, 5, 9, 0, 3, 0, 11, 2,
         2, 12, 6, 0
       >>
    [] seed = 877294176 ->
       <<
         4, 5, 4, 14, 10, 5, 6, 8, 2, 7, 12, 14, 3, 2, 6, 1,
         6, 8, 1, 3
       >>
    [] seed = 1986751372 ->
       <<
         6, 10, 4, 14, 1, 2, 6, 6, 4, 15, 9, 10, 1, 4, 11, 11,
         1, 3, 9, 9
       >>
    [] seed = 878670021 ->
       <<
         14, 13, 15, 2, 13, 13, 1, 6, 14, 2, 10, 6, 4, 5, 7, 2,
         12, 5, 4, 11
       >>
    [] seed = 1616935933 ->
       <<
         5, 1, 13, 11, 3, 6, 11, 15, 2, 0, 11, 12, 14, 15, 6, 0,
         10, 5, 10, 12
       >>
    [] seed = 939704945 ->
       <<
         7, 0, 0, 12, 3, 12, 6, 12, 12, 9, 11, 7, 13, 9, 13, 11,
         0, 7, 4, 5
       >>
    [] seed = 1408371679 ->
       <<
         7, 14, 1, 3, 0, 6, 8, 7, 0, 12, 3, 0, 0, 14, 2, 8,
         0, 10, 13, 1
       >>
    [] seed = 1824792549 ->
       <<
         6, 3, 15, 15, 10, 1, 9, 0, 15, 5, 7, 5, 12, 2, 4, 2,
         7, 6, 13, 9
       >>
    [] seed = 1346596511 ->
       <<
         9, 10, 14, 0, 3, 15, 6, 12, 13, 2, 4, 15, 7, 10, 11, 5,
         3, 11, 2, 10
       >>
    [] seed = 1898980089 ->
       <<
         8, 14, 0, 11, 0, 10, 9, 2, 0, 13, 1, 14, 6, 15, 5, 9,
         9, 11, 6, 5
       >>
    [] seed = 629437436 ->
       <<
         6, 9, 8, 3, 12, 10, 7, 7, 14, 13, 11, 14, 15, 6, 1, 15,
         10, 10, 1, 2
       >>
    [] seed = 1757998681 ->
       <<
         5, 10, 14, 11, 15, 10, 13, 1, 11, 11, 15, 13, 7, 15, 9, 15,
         6, 5, 8, 1
       >>
    [] seed = 203695188 ->
       <<
         13, 15, 6, 13, 6, 5, 5, 1, 10, 8, 9, 11, 6, 11, 14, 7,
         1, 5, 8, 0
       >>
    [] seed = 256878637 ->
       <<
         4, 15, 10, 7, 6, 4, 4, 2, 1, 1, 7, 2, 3, 2, 1, 13,
         11, 8, 2, 2
       >>
    [] seed = 2125826576 ->
       <<
         2, 0, 7, 14, 6, 15, 3, 4, 13, 15, 3, 13, 12, 8, 12, 2,
         8, 5, 4, 8
       >>
    [] seed = 791506985 ->
       <<
         13, 7, 9, 0, 4, 4, 2, 13, 4, 1, 4, 9, 9, 1, 7, 12,
         7, 10, 14, 8
       >>
    [] seed = 812760904 ->
       <<
         0, 5, 6, 0, 1, 0, 12, 14, 2, 5, 5, 10, 11, 13, 14, 12,
         8, 1, 13, 3
       >>
    [] seed = 203389368 ->
       <<
         12, 0, 14, 1, 0, 1, 8, 3, 6, 15, 4, 9, 12, 14, 8, 2,
         15, 5, 12, 15
       >>
    [] seed = 1844885740 ->
       <<
         11, 5, 14, 2, 3, 0, 2, 12, 12, 1, 13, 1, 13, 8, 15, 3,
         13, 13, 5, 8
       >>
    [] seed = 751107910 ->
       <<
         5, 13, 0, 1, 1, 5, 15, 0, 10, 2, 3, 6, 5, 15, 11, 12,
         11, 2, 6, 6
       >>
    [] seed = 1795796920 ->
       <<
         10, 3, 10, 7, 9, 5, 10, 7, 13, 14, 2, 15, 0, 2, 12, 4,
         0, 13, 13, 6
       >>
    [] seed = 406410326 ->
       <<
         8, 8, 15, 3, 15, 5, 3, 0, 4, 13, 14, 4, 9, 7, 7, 10,
         9, 2, 4, 1
       >>
    [] seed = 2041405356 ->
       <<
         13, 8, 11, 4, 11, 4, 14, 13, 7, 0, 10, 12, 1, 3, 5, 4,
         14, 6, 14, 11
       >>
    [] seed = 143066074 ->
       <<
         13, 0, 1, 8, 12, 13, 14, 14, 0, 0, 12, 13, 2, 4, 14, 4,
         14, 3, 7, 5
       >>
    [] seed = 1705110483 ->
       <<
         7, 2, 5, 11, 1, 9, 5, 12, 0, 11, 2, 13, 12, 15, 9, 9,
         3, 10, 2, 4
       >>
    [] seed = 186075439 ->
       <<
         11, 13, 13, 11, 9, 10, 13, 12, 10, 8, 14, 13, 15, 12, 4, 13,
         15, 8, 12, 2
       >>
    [] seed = 1127970481 ->
       <<
         3, 15, 3, 11, 6, 3, 5, 10, 5, 11, 5, 0, 9, 15, 4, 13,
         10, 11, 3, 8
       >>
    [] seed = 263853074 ->
       <<
         0, 11, 1, 13, 4, 10, 13, 11, 14, 4, 4, 7, 14, 4, 2, 13,
         12, 8, 15, 1
       >>
    [] seed = 1847486037 ->
       <<
         3, 12, 2, 0, 7, 7, 12, 6, 10, 15, 14, 5, 6, 7, 7, 2,
         6, 8, 12, 3
       >>
    [] seed = 1415915182 ->
       <<
         13, 0, 7, 8, 2, 6, 15, 8, 0, 7, 3, 3, 13, 7, 5, 7,
         5, 11, 12, 13
       >>
    [] seed = 1136151010 ->
       <<
         6, 11, 6, 14, 12, 8, 11, 14, 13, 11, 2, 8, 6, 6, 8, 15,
         8, 10, 5, 0
       >>
    [] seed = 12742437 ->
       <<
         5, 13, 6, 5, 10, 14, 7, 9, 14, 0, 15, 6, 14, 1, 5, 11,
         7, 7, 1, 1
       >>
    [] seed = 428340589 ->
       <<
         9, 4, 2, 2, 9, 3, 13, 3, 9, 1, 14, 0, 5, 8, 14, 14,
         10, 1, 2, 3
       >>

\* The integers from lo up to, not including, hi, in order: the lower half
\* followed by the upper half.
RECURSIVE arange_from(_, _)
arange_from(lo, hi) ==
  IF hi <= lo THEN << >>
  ELSE IF hi = lo + 1 THEN << lo >>
  ELSE arange_from(lo, (lo + hi) \div 2) \o arange_from((lo + hi) \div 2, hi)

\* np.arange(n)
arange(n) == arange_from(0, n)

\* RandomState(seed): a generator of its own, the stream it reads and how
\* many outputs it has consumed.
RandomState(seed) == [id |-> "fresh", seed |-> seed, pos |-> 0]

\* np.random.mtrand._rand: numpy's process-wide generator.  It is seeded
\* from the operating system when numpy is imported, so that its state is
\* not known to the program at any time.
mtrand_rand == [id |-> "global", seed |-> 0, pos |-> 0]

next_uint32(rng) ==
  LET stream == MT19937_low4(rng.seed)
  IN [value |-> stream[rng.pos + 1],
      rng   |-> [rng EXCEPT !.pos = rng.pos + 1]]

\* Smallest bit mask 2^b - 1 that covers max.
RECURSIVE mask_above(_, _)
mask_above(max, m) == IF m >= max THEN m ELSE mask_above(max, 2 * m + 1)

\* random_interval: a uniform draw in 0..max by masked rejection sampling.
RECURSIVE random_interval(_, _)
random_interval(rng, max) ==
  IF max = 0
  THEN [value |-> 0, rng |-> rng]
  ELSE LET draw == next_uint32(rng)
           v    == draw.value % (mask_above(max, 1) + 1)
       IN IF v <= max
          THEN [value |-> v, rng |-> draw.rng]
          ELSE random_interval(draw.rng, max)

\* RandomState.shuffle: for i = n-1 down to 1, swap x[i] with x[j],
\* j drawn in 0..i.
RECURSIVE shuffle_from(_, _, _)
shuffle_from(rng, x, i) ==
  IF i < 1
  THEN [x |-> x, rng |-> rng]
  ELSE LET d == random_interval(rng, i)
           j == d.value
           y == [x EXCEPT ![i + 1] = x[j + 1], ![j + 1] = x[i + 1]]
       IN shuffle_from(d.rng, y, i - 1)

\* The same loop run by a generator in an unknown state: every j in 0..i
\* can be drawn at every step, which gives every order of x.
RECURSIVE shuffle_any(_, _)
shuffle_any(x, i) ==
  IF i < 1
  THEN {x}
  ELSE UNION {shuffle_any([x EXCEPT ![i + 1] = x[j + 1], ![j + 1] = x[i + 1]],
                          i - 1) : j \in 0..i}

\* rng.shuffle(x): the arrays x can be afterwards; one array if the state of
\* rng is known.
RandomState_shuffle(rng, x) ==
  IF rng.id = "global"
  THEN shuffle_any(x, Len(x) - 1)
  ELSE {shuffle_from(rng, x, Len(x) - 1).x}

\* A plausible slip: random_state left to the process-wide generator.
check_random_state_shared(random_state) == mtrand_rand

\* check_random_state: None gives the process-wide generator, an int seed a
\* new RandomState on every call.
check_random_state(random_state) ==
  IF random_state = << >> THEN mtrand_rand ELSE RandomState(random_state[1])

\* ------------------------------------------------------------- KFold

\* The elements of the set S of row indices in ascending order (indexing
\* with a boolean mask).
masked(n, S) ==
  LET T == S \cap (0..(n - 1))
  IN [p \in 1..Cardinality(T) |->
        CHOOSE v \in T : Cardinality({w \in T : w < v}) = p - 1]

Range(s) == {s[p] : p \in 1..Len(s)}

\* KFold.__init__: n_splits <= 1 raises ValueError; then shuffle=False with a
\* random_state other than None raises ValueError (scikit-learn 0.24 and
\* later; earlier releases warn, ignore the seed and split as without one).
\* The result is the exception raised, or "none".
KFold_init(n_splits, shuffle, random_state) ==
  IF n_splits <= 1 THEN "ValueError: n_splits"
  ELSE IF ~shuffle /\ random_state # << >>
       THEN "ValueError: random_state without shuffle"
       ELSE "none"

KFold_init_ok(n_splits, shuffle, random_state) ==
  KFold_init(n_splits, shuffle, random_state) = "none"

\* A slip: the number of folds is not checked against the number of rows.
KFold_split_unchecked(n_samples, n_splits) == TRUE

\* _BaseKFold.split: n_splits > n_samples raises ValueError.
KFold_split_ok(n_samples, n_splits) == n_splits <= n_samples

\* A slip: the remainder rows are given to no fold.
fold_sizes_floor(n_samples, n_splits) ==
  [f \in 0..(n_splits - 1) |-> n_samples \div n_splits]

\* A slip: the remainder rows are given to the last folds.
fold_sizes_tail(n_samples, n_splits) ==
  [f \in 0..(n_splits - 1) |->
     (n_samples \div n_splits)
       + (IF f >= n_splits - (n_samples % n_splits) THEN 1 ELSE 0)]

\* fold_sizes = full(n_splits, n // n_splits); fold_sizes[: n % n_splits] += 1
fold_sizes(n_samples, n_splits) ==
  [f \in 0..(n_splits - 1) |->
     (n_samples \div n_splits) + (IF f < n_samples % n_splits THEN 1 ELSE 0)]

RECURSIVE fold_start(_, _, _)
fold_start(n_samples, n_splits, f) ==
  IF f = 0 THEN 0
  ELSE fold_start(n_samples, n_splits, f - 1)
         + fold_sizes(n_samples, n_splits)[f - 1]

\* _iter_test_indices: the index array, shuffled if asked for, computed
\* once when the generator is first advanced: the arrays it can be.
KFold_indices(n_samples, shuffle, random_state) ==
  IF shuffle
  THEN RandomState_shuffle(check_random_state(random_state), arange(n_samples))
  ELSE {arange(n_samples)}

\* _iter_test_indices yields indices[start:stop] for fold f; split turns it
\* into a boolean mask and yields (indices[~mask], indices[mask]).
KFold_fold(indices, n_samples, n_splits, f) ==
  LET start == fold_start(n_samples, n_splits, f)
      stop  == start + fold_sizes(n_samples, n_splits)[f]
      test  == Range(SubSeq(indices, start + 1, stop))
  IN [train |-> masked(n_samples, (0..(n_samples - 1)) \ test),
      test  |-> masked(n_samples, test)]

\* list(KFold(n_splits, shuffle, random_state).split(X)): the constructor's
\* checks, the split's check, then every fold in order; the results the call
\* can have.
KFold_split_all(n_samples, n_splits, shuffle, random_state) ==
  IF ~KFold_init_ok(n_splits, shuffle, random_state)
     \/ ~KFold_split_ok(n_samples, n_splits)
  THEN {[error |-> TRUE, folds |-> << >>]}
  ELSE {[error |-> FALSE,
         folds |-> [p \in 1..n_splits |->
                      KFold_fold(indices, n_samples, n_splits, p - 1)]] :
          indices \in KFold_indices(n_samples, shuffle, random_state)}


\* --------------------------------------------------------- the dataset
\* The feature schema and the label column.
features_num ==
  << "lead_time", "arrival_date_week_number", "arrival_date_day_of_month",
     "stays_in_weekend_nights", "stays_in_week_nights", "adults", "children",
     "babies", "is_repeated_guest", "previous_cancellations",
     "previous_bookings_not_canceled", "agent", "company",
     "required_car_parking_spaces", "total_of_special_requests", "adr" >>

features_cat ==
  << "hotel", "arrival_date_month", "meal", "market_segment",
     "distribution_channel", "reserved_room_type", "deposit_type",
     "customer_type" >>

label == "is_canceled"

\* The category values in np.unique's (code point) order, the imputer's fill
\* token included.
CatOrder ==
  << "A", "BB", "City Hotel", "Direct", "HB", "July", "No Deposit",
     "Resort Hotel", "SC", "Transient", "Unknown" >>

DatasetIds == {"clean", "rare", "badlabel", "twobad"}

\* The datasets explored, as read by pd.read_csv.  In every dataset the
\* agent is missing in the odd rows and the company in all rows.  "clean"
\* has no other missing cell; "rare" has a meal that occurs in one row only,
\* a missing hotel and a missing lead_time; "badlabel" has one row whose
\* label is missing; "twobad" has two such rows.
CleanRow(i) ==
  [lead_time                      |-> << 7 * i >>,
   arrival_date_week_number       |-> << 27 >>,
   arrival_date_day_of_month      |-> << 1 >>,
   stays_in_weekend_nights        |-> << 0 >>,
   stays_in_week_nights           |-> << 1 + (i % 2) >>,
   adults                         |-> << 2 >>,
   children                       |-> << 0 >>,
   babies                         |-> << 0 >>,
   is_repeated_guest              |-> << 0 >>,
   previous_cancellations         |-> << 0 >>,
   previous_bookings_not_canceled |-> << 0 >>,
   agent                          |-> IF i % 2 = 0 THEN << 9 >> ELSE << >>,
   company                        |-> << >>,
   required_car_parking_spaces    |-> << 0 >>,
   total_of_special_requests      |-> << 1 >>,
   adr                            |-> << 75 >>,
   hotel                |-> << IF i % 2 = 0 THEN "City Hotel" ELSE "Resort Hotel" >>,
   arrival_date_month   |-> << "July" >>,
   meal                 |-> << IF i % 3 = 0 THEN "BB" ELSE "HB" >>,
   market_segment       |-> << "Direct" >>,
   distribution_channel |-> << "Direct" >>,
   reserved_room_type   |-> << "A" >>,
   deposit_type         |-> << "No Deposit" >>,
   customer_type        |-> << "Transient" >>,
   is_canceled          |-> << IF i % 3 = 1 THEN 1 ELSE 0 >>]

Dataset(id, n) ==
  [i \in 0..(n - 1) |->
     CASE id = "clean" -> CleanRow(i)
       [] id = "rare" ->
            IF i = 0 THEN [CleanRow(i) EXCEPT !.meal = << "SC" >>]
            ELSE IF i = 1 THEN [CleanRow(i) EXCEPT !.hotel = << >>]
            ELSE IF i = 2 THEN [CleanRow(i) EXCEPT !.lead_time = << >>]
            ELSE CleanRow(i)
       [] id = "badlabel" ->
            IF i = 1 THEN [CleanRow(i) EXCEPT !.is_canceled = << >>]
            ELSE CleanRow(i)
       [] OTHER ->
            IF i = 0 \/ i = n - 1
            THEN [CleanRow(i) EXCEPT !.is_canceled = << >>]
            ELSE CleanRow(i)]

\* X.iloc[index] / y.iloc[index]: the rows at the given indices, in order.
take(data, index) == [p \in 1..Len(index) |-> data[index[p]]]

\* ----------------------------------------------------- the preprocessor
\* SimpleImputer(strategy="constant"): a missing number becomes 0.
transformer_num(cell) == IF cell = << >> THEN 0 ELSE cell[1]

\* SimpleImputer(strategy="constant", fill_value="Unknown").
imputer(cell) == IF cell = << >> THEN "Unknown" ELSE cell[1]

\* OneHotEncoder.fit: categories_ is the sorted distinct values of the
\* (imputed) column.
RECURSIVE sorted_unique(_, _)
sorted_unique(seen, p) ==
  IF p > Len(CatOrder) THEN << >>
  ELSE (IF CatOrder[p] \in seen THEN << CatOrder[p] >> ELSE << >>)
         \o sorted_unique(seen, p + 1)

onehot_fit(values) == sorted_unique(Range(values), 1)

\* The encoder's default, which raises on a value not seen during fit.
handle_unknown_default == "error"

\* OneHotEncoder(handle_unknown='ignore').
handle_unknown == "ignore"

\* OneHotEncoder.transform of one value: the indicator block, or an error.
onehot_transform(categories, v) ==
  IF v \notin Range(categories) /\ handle_unknown = "error"
  THEN [ok |-> FALSE, block |-> << >>]
  ELSE [ok |-> TRUE,
        block |-> [p \in 1..Len(categories) |->
                     IF categories[p] = v THEN 1 ELSE 0]]

\* A slip: the preprocessor is fitted on every row of the dataset.
fit_rows_full(data, index) == take(data, masked(Cardinality(DOMAIN data), DOMAIN data))

\* The rows a fold's estimator is fitted on: X_train of _fit_and_score.
fit_rows(data, index) == take(data, index)

\* ColumnTransformer.fit: the fitted category list of each categorical
\* column (the numeric imputer's fitted state is the constant 0).
RECURSIVE fit_columns(_, _)
fit_columns(rows, ci) ==
  IF ci > Len(features_cat) THEN << >>
  ELSE (features_cat[ci] :>
          onehot_fit([p \in 1..Len(rows) |-> imputer(rows[p][features_cat[ci]])]))
         @@ fit_columns(rows, ci + 1)

preprocessor_fit(rows) == fit_columns(rows, 1)

RECURSIVE cat_blocks(_, _, _)
cat_blocks(categories, row, ci) ==
  IF ci > Len(features_cat)
  THEN [ok |-> TRUE, block |-> << >>]
  ELSE Only(
         {IF b.ok /\ rest.ok
          THEN [ok |-> TRUE, block |-> b.block \o rest.block]
          ELSE [ok |-> FALSE, block |-> << >>] :
            b \in {onehot_transform(categories[features_cat[ci]],
                                    imputer(row[features_cat[ci]]))},
            rest \in {cat_blocks(categories, row, ci + 1)}})

\* ColumnTransformer.transform of one row: the numeric columns, then each
\* categorical column's indicator block.
preprocessor_transform(categories, row) ==
  Only(
    {[ok |-> cats.ok,
      x  |-> IF cats.ok
             THEN [p \in 1..Len(features_num) |->
                     transformer_num(row[features_num[p]])] \o cats.block
             ELSE << >>] : cats \in {cat_blocks(categories, row, 1)}})

\* preprocessor.transform(rows): every row from position p on, in order.
RECURSIVE transform_rows(_, _, _)
transform_rows(categories, rows, p) ==
  IF p > Len(rows) THEN << >>
  ELSE << preprocessor_transform(categories, rows[p]) >>
         \o transform_rows(categories, rows, p + 1)


\* ------------------------------------------------------------- float64
\* The arithmetic of C doubles (IEEE 754 binary64, round to nearest, ties to
\* even), which is what numpy and scikit-learn compute in.
\*
\* A natural number of any size is held by its digits in base 2^15, the
\* lowest first and the highest not 0; << >> is 0.
Limb == 32768

RECURSIVE Big_trim(_)
Big_trim(a) ==
  IF a = << >> THEN a
  ELSE IF a[Len(a)] = 0 THEN Big_trim(SubSeq(a, 1, Len(a) - 1))
  ELSE a

\* The number n < 2^31.
Big(n) == Big_trim(<< n % Limb, (n \div Limb) % Limb, n \div (Limb * Limb) >>)

digit(a, p) == IF p <= Len(a) THEN a[p] ELSE 0

\* The value of a number below 2^31.
Big_int(a) == digit(a, 1) + Limb * digit(a, 2) + Limb * Limb * digit(a, 3)

RECURSIVE Big_add_from(_, _, _, _)
Big_add_from(a, b, p, carry) ==
  IF p > Len(a) /\ p > Len(b)
  THEN IF carry = 0 THEN << >> ELSE << carry >>
  ELSE Only({<< t % Limb >> \o Big_add_from(a, b, p + 1, t \div Limb) :
               t \in {digit(a, p) + digit(b, p) + carry}})

Big_add(a, b) == Big_add_from(a, b, 1, 0)

\* a - b for a >= b.
RECURSIVE Big_sub_from(_, _, _, _)
Big_sub_from(a, b, p, borrow) ==
  IF p > Len(a) THEN << >>
  ELSE Only({<< (t + Limb) % Limb >>
               \o Big_sub_from(a, b, p + 1, IF t < 0 THEN 1 ELSE 0) :
               t \in {a[p] - digit(b, p) - borrow}})

Big_sub(a, b) == Big_trim(Big_sub_from(a, b, 1, 0))

RECURSIVE Big_less_at(_, _, _)
Big_less_at(a, b, p) ==
  IF p = 0 THEN FALSE
  ELSE IF a[p] # b[p] THEN a[p] < b[p]
  ELSE Big_less_at(a, b, p - 1)

Big_less(a, b) ==
  IF Len(a) # Len(b) THEN Len(a) < Len(b) ELSE Big_less_at(a, b, Len(a))

\* a * s for a digit s.
RECURSIVE Big_scale_from(_, _, _, _)
Big_scale_from(a, s, p, carry) ==
  IF p > Len(a)
  THEN IF carry = 0 THEN << >> ELSE << carry >>
  ELSE Only({<< t % Limb >> \o Big_scale_from(a, s, p + 1, t \div Limb) :
               t \in {a[p] * s + carry}})

Big_scale(a, s) == IF s = 0 THEN << >> ELSE Big_scale_from(a, s, 1, 0)

RECURSIVE Big_mul_from(_, _, _)
Big_mul_from(a, b, p) ==
  IF p > Len(b) THEN << >>
  ELSE Big_add(Big_scale(a, b[p]), << 0 >> \o Big_mul_from(a, b, p + 1))

Big_mul(a, b) == Big_trim(Big_mul_from(a, b, 1))

RECURSIVE Big_zeros(_)
Big_zeros(n) == IF n <= 0 THEN << >> ELSE << 0 >> \o Big_zeros(n - 1)

\* a * 2^k
Big_shl(a, k) ==
  IF a = << >> THEN a
  ELSE Big_zeros(k \div 15) \o Big_scale(a, 2 ^ (k % 15))

\* floor(a / 2^r) for r < 15, digit p and up.
RECURSIVE Big_shr_from(_, _, _)
Big_shr_from(a, r, p) ==
  IF p > Len(a) THEN << >>
  ELSE << (a[p] \div (2 ^ r)) + (digit(a, p + 1) % (2 ^ r)) * (2 ^ (15 - r)) >>
         \o Big_shr_from(a, r, p + 1)

\* floor(a / 2^k)
Big_shr(a, k) ==
  IF k \div 15 >= Len(a) THEN << >>
  ELSE Big_trim(Big_shr_from(SubSeq(a, (k \div 15) + 1, Len(a)), k % 15, 1))

RECURSIVE bit_length(_)
bit_length(v) == IF v = 0 THEN 0 ELSE 1 + bit_length(v \div 2)

Big_bit_length(a) ==
  IF a = << >> THEN 0 ELSE 15 * (Len(a) - 1) + bit_length(a[Len(a)])

\* Bit i of a (bit 0 is the lowest).
Big_bit(a, i) == (digit(a, (i \div 15) + 1) \div (2 ^ (i % 15))) % 2

\* Whether one of the k lowest bits of a is set.
Big_low(a, k) ==
  \/ \E p \in 1..(k \div 15) : digit(a, p) # 0
  \/ digit(a, (k \div 15) + 1) % (2 ^ (k % 15)) # 0

\* Quotient and remainder of a by d, 0 < d < 2^16; digit p and down, rem
\* being the remainder of the digits above.
RECURSIVE Big_div_from(_, _, _, _)
Big_div_from(a, d, p, rem) ==
  IF p = 0 THEN [q |-> << >>, r |-> rem]
  ELSE Only({Only({[q |-> rest.q \o << t \div d >>, r |-> rest.r] :
                     rest \in {Big_div_from(a, d, p - 1, t % d)}}) :
               t \in {rem * Limb + a[p]}})

\* A double other than 0 is sign * m * 2^e with 2^52 <= m < 2^53:
\* [s |-> 0 or 1 (negative), m |-> the digits of m, e |-> e].  Every value the
\* model computes is far inside the range of the exponent, so that no result
\* overflows or is subnormal.
float64_zero == [s |-> 0, m |-> << >>, e |-> 0]

is_zero(x) == x.m = << >>

\* q * 2^e, or (q + 1) * 2^e if up, for 2^52 <= q < 2^53.
float64_carry(s, q, e, up) ==
  IF ~up THEN [s |-> s, m |-> q, e |-> e]
  ELSE Only({IF Big_bit_length(m) = 54
             THEN [s |-> s, m |-> Big_shr(m, 1), e |-> e + 1]
             ELSE [s |-> s, m |-> m, e |-> e] : m \in {Big_add(q, << 1 >>)}})

\* The double nearest to sign * (N + f) * 2^e, ties to even, where the
\* fraction f is 0 if not sticky and some 0 < f < 1 if sticky (N then has at
\* least 55 bits).
float64_round(s, N, e, sticky) ==
  IF N = << >> THEN float64_zero
  ELSE Only({IF L <= 53
             THEN [s |-> s, m |-> Big_shl(N, 53 - L), e |-> e - (53 - L)]
             ELSE float64_carry(s, Big_shr(N, L - 53), e + (L - 53),
                                /\ Big_bit(N, L - 54) = 1
                                /\ \/ sticky
                                   \/ Big_low(N, L - 54)
                                   \/ Big_bit(N, L - 53) = 1) :
               L \in {Big_bit_length(N)}})

\* The double of the integer n, 0 <= n < 2^31.
float64(n) == float64_round(0, Big(n), 0, FALSE)

float64_neg(x) == IF is_zero(x) THEN x ELSE [x EXCEPT !.s = 1 - x.s]

\* |x| < |y|
float64_below(x, y) ==
  IF is_zero(y) THEN FALSE
  ELSE IF is_zero(x) THEN TRUE
  ELSE IF x.e # y.e THEN x.e < y.e
  ELSE Big_less(x.m, y.m)

\* x < y
float64_less(x, y) ==
  IF x.s = 1
  THEN IF y.s = 1 THEN float64_below(y, x) ELSE TRUE
  ELSE IF y.s = 1 THEN FALSE ELSE float64_below(x, y)

\* x + y for |x| >= |y|, neither 0.  A y below the last place of x by more
\* than 64 binary places does not change x; otherwise the sum is formed
\* exactly and rounded.
float64_add_ordered(x, y) ==
  IF x.e - y.e > 64 THEN x
  ELSE Only({float64_round(x.s,
                           IF x.s = y.s THEN Big_add(a, y.m) ELSE Big_sub(a, y.m),
                           y.e, FALSE) :
               a \in {Big_shl(x.m, x.e - y.e)}})

\* x + y
float64_add(x, y) ==
  IF is_zero(x) THEN y
  ELSE IF is_zero(y) THEN x
  ELSE IF float64_below(x, y) THEN float64_add_ordered(y, x)
  ELSE float64_add_ordered(x, y)

\* x - y
float64_sub(x, y) == float64_add(x, float64_neg(y))

\* x * y
float64_mul(x, y) ==
  IF is_zero(x) \/ is_zero(y) THEN float64_zero
  ELSE float64_round((x.s + y.s) % 2, Big_mul(x.m, y.m), x.e + y.e, FALSE)

\* x / d for an integer d, 0 < d < 2^16 (d is converted to a double without
\* loss): the quotient of m * 2^30 by d has at least 67 bits.
float64_div(x, d) ==
  IF is_zero(x) THEN x
  ELSE Only({float64_round(x.s, Big_trim(qr.q), x.e - 30, qr.r # 0) :
               qr \in {Big_div_from(a, d, Len(a), 0) : a \in {Big_shl(x.m, 30)}}})

\* One step of the square root, digit by digit in base 2: t holds the rest N,
\* the root so far and the power of 4 being tried.
sqrt_step(t) ==
  Only({IF Big_less(t.N, c)
        THEN [N |-> t.N, root |-> Big_shr(t.root, 1), bit |-> Big_shr(t.bit, 2)]
        ELSE [N    |-> Big_sub(t.N, c),
              root |-> Big_add(Big_shr(t.root, 1), t.bit),
              bit  |-> Big_shr(t.bit, 2)] :
          c \in {Big_add(t.root, t.bit)}})

\* count >= 1 steps, made half by half.
RECURSIVE sqrt_steps(_, _)
sqrt_steps(t, count) ==
  IF count = 1 THEN sqrt_step(t)
  ELSE Only({sqrt_steps(u, count - (count \div 2)) :
               u \in {sqrt_steps(t, count \div 2)}})

\* floor(sqrt(N)) and what is left of N, for N below 2^(2 * bits).
Big_sqrt(N, bits) ==
  sqrt_steps([N |-> N, root |-> << >>, bit |-> Big_shl(<< 1 >>, 2 * (bits - 1))],
             bits)

\* sqrt(x) for x >= 0: m * 2^k has 109 or 110 bits for k = 56 or 57, the one
\* that leaves an even exponent; its root has 55 bits.
float64_sqrt(x) ==
  IF is_zero(x) THEN x
  ELSE Only({Only({float64_round(0, r.root, (x.e - k) \div 2, r.N # << >>) :
                     r \in {Big_sqrt(Big_shl(x.m, k), 55)}}) :
               k \in {IF x.e % 2 = 0 THEN 56 ELSE 57}})

\* np.rint(x) for 0 <= x < 2^31 as an integer: the nearest whole number, ties
\* to even.
rint(x) ==
  IF is_zero(x) \/ x.e < -54 THEN 0
  ELSE IF x.e >= 0 THEN Big_int(Big_shl(x.m, x.e))
  ELSE Big_int(Big_shr(x.m, -x.e))
         + (IF /\ Big_bit(x.m, (-x.e) - 1) = 1
               /\ \/ Big_low(x.m, (-x.e) - 1)
                  \/ Big_bit(x.m, -x.e) = 1
            THEN 1 ELSE 0)

\* ------------------------------------------------------ the classifiers
\* models: the two named classifiers, both with random_state=1234.
models == << "Decision Tree", "Random Forest" >>

RECURSIVE SumSeq(_, _)
SumSeq(s, p) == IF p > Len(s) THEN 0 ELSE s[p] + SumSeq(s, p + 1)

RECURSIVE ISqrt(_, _, _)
ISqrt(v, lo, hi) ==
  IF lo >= hi THEN lo
  ELSE IF ((lo + hi + 1) \div 2) * ((lo + hi + 1) \div 2) <= v
       THEN ISqrt(v, (lo + hi + 1) \div 2, hi)
       ELSE ISqrt(v, lo, ((lo + hi + 1) \div 2) - 1)

RECURSIVE ascending(_)
ascending(S) ==
  IF S = {} THEN << >>
  ELSE Only({<< m >> \o ascending(S \ {m}) :
               m \in {a \in S : \A b \in S : a <= b}})

\* np.zeros(n)
RECURSIVE zeros(_)
zeros(n) ==
  IF n <= 0 THEN << >>
  ELSE IF n = 1 THEN << 0 >>
  ELSE zeros(n \div 2) \o zeros(n - (n \div 2))

\* np.iinfo(np.int32).max
MAX_INT == 2147483647

\* RandomForestClassifier's n_estimators, which the notebook leaves at its
\* default.
n_estimators == 100

\* random_state.randint(MAX_INT) drawn count >= 1 times from RandomState(1234)
\* at position pos of its stream: each draw is the next output under the
\* mask 2^31 - 1 that is below MAX_INT.  The draws are made half by half;
\* the result is the values drawn and the position after.
RECURSIVE randint_MAX_INT(_, _)
randint_MAX_INT(pos, count) ==
  IF count = 1
  THEN IF MT19937_low31[pos] <= MAX_INT - 1
       THEN [values |-> << MT19937_low31[pos] >>, pos |-> pos + 1]
       ELSE randint_MAX_INT(pos + 1, count)
  ELSE Only({Only({[values |-> a.values \o b.values, pos |-> b.pos] :
                     b \in {randint_MAX_INT(a.pos, count - (count \div 2))}}) :
               a \in {randint_MAX_INT(pos, count \div 2)}})

\* _set_random_states: the random_state the forest gives each of its trees.
tree_random_states == randint_MAX_INT(1, n_estimators).values

\* The random_state of every tree that is grown: the decision tree's, then
\* those of the forest's trees.
random_states == << 1234 >> \o tree_random_states

\* The largest value of our_rand_r.
RAND_R_MAX == 2147483647

\* Bitwise exclusive or of two naturals.
RECURSIVE xor(_, _)
xor(a, b) ==
  IF a = 0 THEN b
  ELSE IF b = 0 THEN a
  ELSE 2 * xor(a \div 2, b \div 2) + ((a + b) % 2)

\* A 32-bit unsigned integer is held as << its high 16 bits, its low 16
\* bits >>.  The shifts of our_rand_r, with the bits shifted out dropped:
shl13(s) == << (s[1] % 8) * 8192 + (s[2] \div 8), (s[2] % 8) * 8192 >>
shr17(s) == << 0, s[1] \div 2 >>
shl5(s)  == << (s[1] % 2048) * 32 + (s[2] \div 2048), (s[2] % 2048) * 32 >>
xor32(a, b) == << xor(a[1], b[1]), xor(a[2], b[2]) >>

\* The seed our_rand_r uses in place of 0, which xorshift would never leave.
DEFAULT_SEED == 1

\* The state of our_rand_r after one call:
\* if seed == 0: seed = DEFAULT_SEED
\* seed ^= seed << 13; seed ^= seed >> 17; seed ^= seed << 5.
our_rand_r_state(seed) ==
  Only({xor32(c, shl5(c)) :
          c \in {xor32(b, shr17(b)) :
                   b \in {xor32(a, shl13(a)) :
                            a \in {IF seed = << 0, 0 >>
                                   THEN << 0, DEFAULT_SEED >> ELSE seed}}}})

\* The next count calls of our_rand_r from the given state, count >= 1:
\* the values returned, each the new state modulo RAND_R_MAX + 1, and the
\* state after the last.  The calls are made half by half.
RECURSIVE our_rand_r(_, _)
our_rand_r(seed, count) ==
  IF count = 1
  THEN Only({[values |-> << (s[1] % 32768) * 65536 + s[2] >>, seed |-> s] :
               s \in {our_rand_r_state(seed)}})
  ELSE Only({Only({[values |-> a.values \o b.values, seed |-> b.seed] :
                     b \in {our_rand_r(a.seed, count - (count \div 2))}}) :
               a \in {our_rand_r(seed, count \div 2)}})

\* The largest number of features a row can have after the preprocessor
\* (the numeric columns and one indicator per category value), and the
\* largest number of draws a tree can make: one per feature and node split.
MaxFeatures == Len(features_num) + Len(CatOrder) + 1
MaxDraws == MaxFeatures * (MaxRows + 1)

\* Splitter.__cinit__: rand_r_state = random_state.randint(0, RAND_R_MAX),
\* the first draw from RandomState(random_state); then the values our_rand_r
\* returns to the tree whose random_state is random_states[e].
RECURSIVE rand_r_from(_, _)
rand_r_from(e, count) ==
  IF count = 1
  THEN << our_rand_r(<< MT19937_first31(random_states[e]) \div 65536,
                        MT19937_first31(random_states[e]) % 65536 >>,
                     MaxDraws).values >>
  ELSE rand_r_from(e, count \div 2)
         \o rand_r_from(e + (count \div 2), count - (count \div 2))

rand_r == rand_r_from(1, Len(random_states))

\* rand_int(low, high, random_state) = low + our_rand_r(random_state) %
\* (high - low), value being what our_rand_r returned.
rand_int(low, high, value) == low + (value % (high - low))

\* The training data t of one tree: the feature vectors X, the labels y, the
\* sample weights w, classes = np.unique(y), max_features and the values of
\* our_rand_r.  The weight of class c among the rows at positions P:
RECURSIVE class_weight(_, _, _, _)
class_weight(t, P, c, p) ==
  IF p > Len(t.y) THEN 0
  ELSE (IF p \in P /\ t.y[p] = c THEN t.w[p] ELSE 0) + class_weight(t, P, c, p + 1)

RECURSIVE class_weights(_, _, _)
class_weights(t, P, k) ==
  IF k > Len(t.classes) THEN << >>
  ELSE << class_weight(t, P, t.classes[k], 1) >> \o class_weights(t, P, k + 1)

\* The weighted class counts of the rows at positions P (a node's value).
node_value(t, P) == class_weights(t, P, 1)

\* The Gini impurity of a node is 0 exactly when one class is present.
is_pure(v) == Cardinality({k \in 1..Len(v) : v[k] > 0}) <= 1

sq_count(v) == SumSeq([k \in 1..Len(v) |-> v[k] * v[k]], 1)

\* Gini.node_impurity and Gini.children_impurity for one node with the
\* value v: 1.0 - sq_count / (weighted_n * weighted_n), in doubles.
gini(v) ==
  float64_sub(float64(1),
              float64_div(float64(sq_count(v)), SumSeq(v, 1) * SumSeq(v, 1)))

\* Criterion.proxy_impurity_improvement of a split into children with the
\* values vl and vr:
\* - weighted_n_right * impurity_right - weighted_n_left * impurity_left.
proxy_impurity_improvement(vl, vr) ==
  float64_sub(float64_neg(float64_mul(float64(SumSeq(vr, 1)), gini(vr))),
              float64_mul(float64(SumSeq(vl, 1)), gini(vl)))

\* np.finfo('double').eps = 2^-52
EPSILON == [s |-> 0, m |-> Big_shl(<< 1 >>, 52), e |-> -104]

\* Criterion.impurity_improvement of the split of a node with the value v
\* into children with the values vl and vr, the tree being fitted on rows
\* of total weight weighted_n_samples:
\* (weighted_n_node_samples / weighted_n_samples) *
\*   (impurity_parent - weighted_n_right / weighted_n_node_samples * impurity_right
\*                    - weighted_n_left / weighted_n_node_samples * impurity_left)
impurity_improvement(weighted_n_samples, v, vl, vr) ==
  float64_mul(
    float64_div(float64(SumSeq(v, 1)), weighted_n_samples),
    float64_sub(
      float64_sub(gini(v),
                  float64_mul(float64_div(float64(SumSeq(vr, 1)), SumSeq(v, 1)),
                              gini(vr))),
      float64_mul(float64_div(float64(SumSeq(vl, 1)), SumSeq(v, 1)), gini(vl))))

\* split.improvement + EPSILON < min_impurity_decrease, which is 0: the
\* split found is given up and the node becomes a leaf.
below_min_impurity_decrease(improvement) ==
  float64_less(float64_add(improvement, EPSILON), float64_zero)

\* The splits of the rows P on a feature: one between each two consecutive
\* distinct values, the threshold being their midpoint (kept doubled), with
\* the improvement of each.
feature_splits(t, P, feature) ==
  {[feature    |-> feature,
    threshold2 |-> v + (CHOOSE u \in {t.X[p][feature + 1] : p \in P} :
                          u > v /\ \A z \in {t.X[p][feature + 1] : p \in P} :
                                     z > v => u <= z),
    left       |-> {p \in P : t.X[p][feature + 1] <= v},
    proxy      |-> proxy_impurity_improvement(
                     node_value(t, {p \in P : t.X[p][feature + 1] <= v}),
                     node_value(t, {p \in P : t.X[p][feature + 1] > v}))] :
     v \in {a \in {t.X[p][feature + 1] : p \in P} :
              \E b \in {t.X[p][feature + 1] : p \in P} : b > a}}

\* current_proxy_improvement > best_proxy_improvement, compared as doubles.
improves(a, b) == float64_less(b.proxy, a.proxy)

\* The best split on one feature: the thresholds are tried in ascending
\* order and a split is kept when its improvement is greater than the best
\* so far.
feature_best(splits) ==
  CHOOSE s \in splits :
    \A r \in splits \ {s} :
      improves(s, r) \/ (~improves(r, s) /\ s.threshold2 < r.threshold2)

\* features[i], features[j] = features[j], features[i]
swap(features, i, j) ==
  [features EXCEPT ![i + 1] = features[j + 1], ![j + 1] = features[i + 1]]

\* One pass of the loop of BestSplitter.node_split, f_j being the feature
\* position drawn.  L holds the loop's variables: the features array, the
\* number of values taken from our_rand_r, f_i, n_visited_features,
\* n_found_constants, n_drawn_constants and the best split so far (none
\* at first).  A feature known to be constant is moved to the drawn ones; a
\* feature found constant on the rows P joins the constants; any other
\* feature is evaluated.
visit(t, P, n_known_constants, L, f_j) ==
  IF f_j < n_known_constants
  THEN [features            |-> swap(L.features, L.n_drawn_constants, f_j),
        pos                 |-> L.pos + 1,
        f_i                 |-> L.f_i,
        n_visited_features  |-> L.n_visited_features + 1,
        n_found_constants   |-> L.n_found_constants,
        n_drawn_constants   |-> L.n_drawn_constants + 1,
        best                |-> L.best]
  ELSE IF \A p \in P, q \in P :
            t.X[p][L.features[f_j + L.n_found_constants + 1] + 1]
              = t.X[q][L.features[f_j + L.n_found_constants + 1] + 1]
  THEN [features            |-> swap(L.features, f_j + L.n_found_constants,
                                     n_known_constants + L.n_found_constants),
        pos                 |-> L.pos + 1,
        f_i                 |-> L.f_i,
        n_visited_features  |-> L.n_visited_features + 1,
        n_found_constants   |-> L.n_found_constants + 1,
        n_drawn_constants   |-> L.n_drawn_constants,
        best                |-> L.best]
  ELSE [features            |-> swap(L.features, L.f_i - 1,
                                     f_j + L.n_found_constants),
        pos                 |-> L.pos + 1,
        f_i                 |-> L.f_i - 1,
        n_visited_features  |-> L.n_visited_features + 1,
        n_found_constants   |-> L.n_found_constants,
        n_drawn_constants   |-> L.n_drawn_constants,
        best                |->
          Only({IF L.best = << >> \/ improves(s, L.best[1])
                THEN << s >> ELSE L.best :
                  s \in {feature_best(feature_splits(
                           t, P, L.features[f_j + L.n_found_constants + 1]))}})]

\* The loop of BestSplitter.node_split: features are drawn without
\* replacement until none is left that is not constant, or max_features
\* have been visited and one of them was not constant.
draw_more(t, n_known_constants, L) ==
  /\ L.f_i > n_known_constants + L.n_found_constants
  /\ \/ L.n_visited_features < t.max_features
     \/ L.n_visited_features <= L.n_found_constants + L.n_drawn_constants

\* The loop's variables after at most passes >= 1 further passes, made half
\* by half; every pass uses up a feature, so that the loop has ended after
\* as many passes as there are features.
RECURSIVE draw_features(_, _, _, _, _)
draw_features(t, P, n_known_constants, L, passes) ==
  IF passes = 1
  THEN IF draw_more(t, n_known_constants, L)
       THEN visit(t, P, n_known_constants, L,
                  rand_int(L.n_drawn_constants, L.f_i - L.n_found_constants,
                           t.rand_r[L.pos + 1]))
       ELSE L
  ELSE Only({draw_features(t, P, n_known_constants, M,
                           passes - (passes \div 2)) :
               M \in {draw_features(t, P, n_known_constants, L,
                                    passes \div 2)}})

\* BestSplitter.node_split on the rows P.  S is the splitter's state that
\* lasts from node to node: the features array, the constant_features array
\* and the number of values taken from our_rand_r.  The result is the best
\* split (none if no feature separates the rows), the state after, in which
\* the known constant features are back in their order and the ones found
\* are recorded, and the number of constant features for the children.
node_split(t, P, S, n_constant_features) ==
  Only({[best                |-> L.best,
         n_constant_features |-> n_constant_features + L.n_found_constants,
         S |-> [features |->
                  SubSeq(S.constant_features, 1, n_constant_features)
                    \o SubSeq(L.features, n_constant_features + 1,
                              Len(L.features)),
                constant_features |->
                  SubSeq(S.constant_features, 1, n_constant_features)
                    \o SubSeq(L.features, n_constant_features + 1,
                              n_constant_features + L.n_found_constants)
                    \o SubSeq(S.constant_features,
                              n_constant_features + L.n_found_constants + 1,
                              Len(S.constant_features)),
                pos |-> L.pos]] :
          L \in {draw_features(t, P, n_constant_features,
                               [features            |-> S.features,
                                pos                 |-> S.pos,
                                f_i                 |-> Len(S.features),
                                n_visited_features  |-> 0,
                                n_found_constants   |-> 0,
                                n_drawn_constants   |-> 0,
                                best                |-> << >>],
                               Len(S.features))}})

\* A node without children (TREE_LEAF, TREE_UNDEFINED).
Leaf(value) ==
  [feature |-> -2, threshold2 |-> -4, left |-> << >>, right |-> << >>,
   value |-> value]

\* DepthFirstTreeBuilder.build over the rows P.  A node is a leaf if it has
\* fewer than min_samples_split = 2 rows, is pure, no feature separates its
\* rows, or the improvement of the best split is below
\* min_impurity_decrease; otherwise its left subtree is built, then its
\* right one.  A node holds each child as a sequence of length one.
RECURSIVE build(_, _, _, _)
build(t, P, S, n_constant_features) ==
  IF Cardinality(P) < 2 \/ is_pure(node_value(t, P))
  THEN [node |-> Leaf(node_value(t, P)), S |-> S]
  ELSE Only({
    IF \/ sp.best = << >>
       \/ below_min_impurity_decrease(
            impurity_improvement(
              SumSeq(t.w, 1), node_value(t, P),
              node_value(t, sp.best[1].left),
              node_value(t, P \ sp.best[1].left)))
    THEN [node |-> Leaf(node_value(t, P)), S |-> sp.S]
    ELSE Only({
      Only({[node |-> [feature    |-> sp.best[1].feature,
                       threshold2 |-> sp.best[1].threshold2,
                       left       |-> << l.node >>,
                       right      |-> << r.node >>,
                       value      |-> node_value(t, P)],
             S    |-> r.S] :
              r \in {build(t, right, l.S, sp.n_constant_features)}}) :
        l \in {build(t, sp.best[1].left, sp.S, sp.n_constant_features)},
        right \in {P \ sp.best[1].left}}) :
      sp \in {node_split(t, P, S, n_constant_features)}})

\* DecisionTreeClassifier.fit with sample weights, for the tree whose
\* random_state is random_states[e]: rows of weight 0 are left out of the
\* tree.
Tree_fit(Xt, y, w, classes, max_features, e) ==
  Only({build(t, {p \in 1..Len(y) : w[p] > 0},
              [features          |-> arange(Len(Xt[1])),
               constant_features |-> zeros(Len(Xt[1])),
               pos               |-> 0], 0).node :
          t \in {[X |-> Xt, y |-> y, w |-> w, classes |-> classes,
                  max_features |-> max_features, rand_r |-> rand_r[e]]}})

\* Tree.apply and the value of the leaf reached: X[feature] <= threshold
\* goes left.
RECURSIVE tree_value(_, _)
tree_value(node, x) ==
  IF node.left = << >> THEN node.value
  ELSE IF 2 * x[node.feature + 1] <= node.threshold2
       THEN tree_value(node.left[1], x)
       ELSE tree_value(node.right[1], x)

\* random_instance.randint(0, n_samples, count)
RECURSIVE randint(_, _, _)
randint(rng, n_samples, count) ==
  IF count = 0 THEN << >>
  ELSE Only({<< d.value >> \o randint(d.rng, n_samples, count - 1) :
               d \in {random_interval(rng, n_samples - 1)}})

\* np.bincount(indices, minlength=n_samples)
RECURSIVE bincount(_, _, _)
bincount(indices, n_samples, p) ==
  IF p > n_samples THEN << >>
  ELSE << Cardinality({q \in 1..Len(indices) : indices[q] = p - 1}) >>
         \o bincount(indices, n_samples, p + 1)

\* _generate_sample_indices and np.bincount: how many times each row is
\* drawn into the bootstrap sample of the tree with the given random_state.
bootstrap_weights(tree_random_state, n_samples) ==
  Only({bincount(indices, n_samples, 1) :
          indices \in {randint(RandomState(tree_random_state),
                               n_samples, n_samples)}})

\* max_features="sqrt": max(1, int(sqrt(n_features)))
max_features_sqrt(n_features) ==
  IF ISqrt(n_features, 0, n_features) < 1 THEN 1
  ELSE ISqrt(n_features, 0, n_features)

\* BaseForest.fit: one tree per bootstrap sample, for count >= 1 trees of
\* the forest from its tree e on, grown half by half; the tree's
\* random_state is random_states[e + 1].
RECURSIVE forest(_, _, _, _, _)
forest(Xt, labels, classes, e, count) ==
  IF count = 1
  THEN << Only({Tree_fit(Xt, labels, w, classes,
                         max_features_sqrt(Len(Xt[1])), e + 1) :
                  w \in {bootstrap_weights(tree_random_states[e], Len(labels))}}) >>
  ELSE forest(Xt, labels, classes, e, count \div 2)
         \o forest(Xt, labels, classes, e + (count \div 2),
                   count - (count \div 2))

\* The fitted classifier for labels without a missing value: the decision
\* tree is one tree on all rows that looks at every feature, the forest one
\* tree per bootstrap sample.
fit_labels(name, Xt, labels, classes) ==
  [ok |-> TRUE,
   classes |-> classes,
   estimators |->
     IF name = "Decision Tree"
     THEN << Tree_fit(Xt, labels, [p \in 1..Len(labels) |-> 1], classes,
                      Len(Xt[1]), 1) >>
     ELSE forest(Xt, labels, classes, 1, n_estimators)]

\* classifier.fit(Xt, y): it fails on a missing label.
Classifier_fit(name, Xt, y) ==
  IF \E p \in 1..Len(y) : y[p] = << >>
  THEN [ok |-> FALSE, classes |-> << >>, estimators |-> << >>]
  ELSE Only({fit_labels(name, Xt, labels, ascending(Range(labels))) :
               labels \in {[p \in 1..Len(y) |-> y[p][1]]}})

\* The value of the leaf the row x reaches in each of count >= 1 trees from
\* tree e on (half by half).
RECURSIVE leaf_values(_, _, _, _)
leaf_values(estimators, x, e, count) ==
  IF count = 1 THEN << tree_value(estimators[e], x) >>
  ELSE leaf_values(estimators, x, e, count \div 2)
         \o leaf_values(estimators, x, e + (count \div 2),
                        count - (count \div 2))

\* For every row of Xt from row r on, the leaf values the row reaches.
RECURSIVE leaves_of(_, _, _)
leaves_of(estimators, Xt, r) ==
  IF r > Len(Xt) THEN << >>
  ELSE << leaf_values(estimators, Xt[r], 1, Len(estimators)) >>
         \o leaves_of(estimators, Xt, r + 1)

RECURSIVE gcd(_, _)
gcd(a, b) == IF b = 0 THEN a ELSE gcd(b, a % b)

\* np.argmax of whole numbers: the first position of the largest entry
\* (1-based).
argmax(v) ==
  CHOOSE k \in 1..Len(v) :
    \A r \in 1..Len(v) : (r < k => v[r] < v[k]) /\ (r > k => v[r] <= v[k])

\* np.argmax of doubles.
float64_argmax(v) ==
  CHOOSE k \in 1..Len(v) :
    \A r \in 1..Len(v) : /\ (r < k => float64_less(v[r], v[k]))
                          /\ (r > k => ~float64_less(v[k], v[r]))

\* DecisionTreeClassifier.predict_proba of a tree of the forest, for a row
\* that reaches a leaf with the given value: proba /= normalizer, each class
\* weight over the weight of the leaf, in doubles.
predict_proba(value) ==
  [k \in 1..Len(value) |-> float64_div(float64(value[k]), SumSeq(value, 1))]

\* _accumulate_prediction for one row, for count >= 1 trees from position p
\* of the order in which the trees come to add: out += prediction, tree
\* after tree (made half by half).
RECURSIVE accumulate_prediction(_, _, _, _, _)
accumulate_prediction(values, order, p, count, out) ==
  IF count = 1
  THEN Only({[k \in 1..Len(out) |-> float64_add(out[k], prediction[k])] :
               prediction \in {predict_proba(values[order[p]])}})
  ELSE Only({accumulate_prediction(values, order, p + (count \div 2),
                                   count - (count \div 2), half) :
               half \in {accumulate_prediction(values, order, p,
                                               count \div 2, out)}})

\* ForestClassifier.predict_proba for one row: all_proba starts at zero,
\* every tree adds its prediction, and the sum is divided by the number of
\* trees.
forest_predict_proba(values, order) ==
  Only({[k \in 1..Len(out) |-> float64_div(out[k], Len(values))] :
          out \in {accumulate_prediction(
                     values, order, 1, Len(order),
                     [k \in 1..Len(values[1]) |-> float64_zero])}})

\* The proportions of a leaf are doubles without rounding: each class weight
\* over the weight of the leaf is a fraction whose denominator is a power
\* of two.
RECURSIVE power_of_two(_)
power_of_two(n) == n = 1 \/ (n % 2 = 0 /\ power_of_two(n \div 2))

exact_proportions(value) ==
  \A k \in 1..Len(value) :
    power_of_two(SumSeq(value, 1) \div gcd(value[k], SumSeq(value, 1)))

\* The orders in which the n trees of a forest can come to add their
\* predictions (1-based positions of the trees).
orders(n) ==
  {order \in [1..n -> 1..n] : \A p, q \in 1..n : order[p] = order[q] => p = q}

\* The forest is built with n_jobs=-1: predict_proba hands its trees to
\* threads, and each thread adds its tree's prediction for all rows to
\* all_proba under a lock, in the order the threads get there.  leaves holds,
\* for every row of the call, the leaf values the row reaches in the trees.
\* If every proportion added is a double without rounding, so is every sum
\* of them (multiples of 2^-15 below 2^7), and the order does not matter:
\* the order of the trees stands for all orders.
accumulation_orders(leaves) ==
  IF \A r \in 1..Len(leaves) : \A e \in 1..Len(leaves[r]) :
       exact_proportions(leaves[r][e])
  THEN {arange_from(1, Len(leaves[1]) + 1)}
  ELSE orders(Len(leaves[1]))

\* classifier.predict for one row, given the leaf values the row reaches:
\* the decision tree takes classes_[argmax] of its leaf's value, the forest
\* classes_[argmax(predict_proba)].
Classifier_predict(name, classes, values, order) ==
  IF name = "Decision Tree"
  THEN classes[argmax(values[1])]
  ELSE classes[float64_argmax(forest_predict_proba(values, order))]

\* classifier.predict(Xt): the arrays of predictions the call can return,
\* one for every order in which the trees of a forest can come to add.
predict(name, classes, estimators, Xt) ==
  IF Len(Xt) = 0 THEN {<< >>}
  ELSE Only({{[r \in 1..Len(Xt) |->
                 Classifier_predict(name, classes, leaves[r], order)] :
                order \in IF name = "Decision Tree"
                          THEN {<< 1 >>} ELSE accumulation_orders(leaves)} :
               leaves \in {leaves_of(estimators, Xt, 1)}})

\* ---------------------------------------------------------- estimators
NoCategories == [c \in Range(features_cat) |-> << >>]

\* An estimator object (a Pipeline of preprocessor and model): whose it is,
\* and the fitted state of its two steps.
Unfitted(id, name) ==
  [id |-> id, name |-> name, pre_fitted |-> FALSE, categories |-> NoCategories,
   clf_fitted |-> FALSE, classes |-> << >>, estimators |-> << >>]

\* A slip: the fold is handed the pipeline object itself.
clone_alias(estimator, owner) == estimator

\* clone(estimator): a new unfitted estimator with the same parameters.
clone(estimator, owner) == Unfitted(<< "fold", owner >>, estimator.name)

\* The last step of Pipeline.fit: the classifier is fitted on the
\* transformed rows Xt, if the transformation succeeded.
final_fit(name, Xt, rows) ==
  IF \A p \in 1..Len(rows) : Xt[p].ok
  THEN Classifier_fit(name,
                      [p \in 1..Len(rows) |-> Xt[p].x],
                      [p \in 1..Len(rows) |-> rows[p][label]])
  ELSE [ok |-> FALSE, classes |-> << >>, estimators |-> << >>]

\* Pipeline.fit(X_train, y_train): the preprocessor is fitted and applied,
\* then the classifier is fitted; a failure of the classifier leaves the
\* preprocessor fitted.
Pipeline_fit(est, rows) ==
  Only({Only({[ok  |-> clf.ok,
               est |-> [id |-> est.id, name |-> est.name,
                        pre_fitted |-> TRUE, categories |-> cats,
                        clf_fitted |-> clf.ok, classes |-> clf.classes,
                        estimators |-> clf.estimators]] :
                clf \in {final_fit(est.name, Xt, rows)}}) :
          cats \in {preprocessor_fit(rows)},
          Xt \in {transform_rows(preprocessor_fit(rows), rows, 1)}})

\* The number of rows whose prediction is the row's label.
hits(y_pred, rows) ==
  Cardinality({p \in 1..Len(rows) : y_pred[p] = rows[p][label][1]})

\* accuracy_score: the mean of y_true == y_pred, a double.
accuracy_score(y_pred, rows) ==
  float64_div(float64(hits(y_pred, rows)), Len(rows))

\* The "accuracy" scorer: predict (transform without refitting, then the
\* classifier), then accuracy_score, which fails on a missing true label.
\* The result is the set of scores the call can return; a score is a
\* sequence holding a double, or << >> when scoring failed.
accuracy(est, rows) ==
  Only(
    {IF /\ \A p \in 1..Len(rows) : Xt[p].ok
        /\ \A p \in 1..Len(rows) : rows[p][label] # << >>
        /\ Len(rows) > 0
     THEN {<< accuracy_score(y_pred, rows) >> :
             y_pred \in predict(est.name, est.classes, est.estimators,
                                [p \in 1..Len(rows) |-> Xt[p].x])}
     ELSE {<< >>} : Xt \in {transform_rows(est.categories, rows, 1)}})


\* ------------------------------------------------- the evaluations made
\* The row sets an evaluation can be given: for every dataset explored, the
\* rows at a set of indices that is neither empty nor all of them.
TrainSets ==
  UNION {{[id |-> id, n |-> n, train |-> masked(n, S),
           test |-> masked(n, (0..(n - 1)) \ S)] :
            S \in (SUBSET (0..(n - 1))) \ {{}, 0..(n - 1)}} :
           id \in DatasetIds, n \in 2..MaxRows}

\* _fit_and_score on a new estimator: the fit on the train rows and the
\* scores the fitted estimator can be given on the test rows.
fit_and_score(name, train, test) ==
  Only({[name   |-> name, train |-> train, test |-> test,
         fit    |-> r,
         scores |-> IF r.ok THEN accuracy(r.est, test) ELSE {<< >>}] :
          r \in {Pipeline_fit(Unfitted(<< "new" >>, name), train)}})

\* The evaluations of the classifiers on the row sets above, each worked out
\* once.
Evaluations ==
  {fit_and_score(models[m], take(Dataset(s.id, s.n), s.train),
                 take(Dataset(s.id, s.n), s.test)) :
     m \in 1..Len(models), s \in TrainSets}

\* estimator.fit(rows): Pipeline_fit, read from the evaluations worked out
\* above where they hold it.
fitted(est, rows) ==
  IF \E v \in Evaluations : v.name = est.name /\ v.train = rows
  THEN Only({[ok |-> r.ok, est |-> [r.est EXCEPT !.id = est.id]] :
               r \in {(CHOOSE v \in Evaluations :
                         v.name = est.name /\ v.train = rows).fit}})
  ELSE Pipeline_fit(est, rows)

\* The fitted state of an estimator, whose ever it is.
fitted_state(est) == [est EXCEPT !.id = << >>]

\* scorer(estimator, rows): accuracy, read from the evaluations worked out
\* above where they hold it.
scored(est, train, rows) ==
  IF \E v \in Evaluations :
       /\ v.name = est.name /\ v.train = train /\ v.test = rows
       /\ fitted_state(v.fit.est) = fitted_state(est)
  THEN (CHOOSE v \in Evaluations :
          v.name = est.name /\ v.train = train /\ v.test = rows).scores
  ELSE accuracy(est, rows)

\* ------------------------------------------------------------- summary
\* cv_results is an array of scores: a score is << >> for nan, or a sequence
\* holding a double.
HasNaN(scores) == \E p \in 1..Len(scores) : scores[p] = << >>

\* a[p] + ... + a[last] added to res one after the other.
RECURSIVE sum_from(_, _, _, _)
sum_from(a, p, last, res) ==
  IF p > last THEN res
  ELSE Only({sum_from(a, p + 1, last, r) : r \in {float64_add(res, a[p])}})

\* One of the eight running sums of numpy's pairwise summation:
\* r[j] += a[i + j] for i = 8, 16, ... below limit (0-based i and j).
RECURSIVE lane(_, _, _, _, _)
lane(a, j, i, limit, r) ==
  IF i >= limit THEN r
  ELSE Only({lane(a, j, i + 8, limit, s) : s \in {float64_add(r, a[i + j + 1])}})

\* np.add.reduce over an array of up to 128 doubles (one block of the
\* pairwise summation): fewer than 8 are added one after the other from 0;
\* otherwise eight running sums are kept, added up as
\* ((r0 + r1) + (r2 + r3)) + ((r4 + r5) + (r6 + r7)), and the last n % 8
\* values are added one after the other.
np_sum(a) ==
  IF Len(a) < 8 THEN sum_from(a, 1, Len(a), float64_zero)
  ELSE Only({sum_from(a, Len(a) - (Len(a) % 8) + 1, Len(a),
                      float64_add(
                        float64_add(float64_add(r[1], r[2]), float64_add(r[3], r[4])),
                        float64_add(float64_add(r[5], r[6]), float64_add(r[7], r[8])))) :
               r \in {<< lane(a, 0, 8, Len(a) - (Len(a) % 8), a[1]),
                         lane(a, 1, 8, Len(a) - (Len(a) % 8), a[2]),
                         lane(a, 2, 8, Len(a) - (Len(a) % 8), a[3]),
                         lane(a, 3, 8, Len(a) - (Len(a) % 8), a[4]),
                         lane(a, 4, 8, Len(a) - (Len(a) % 8), a[5]),
                         lane(a, 5, 8, Len(a) - (Len(a) % 8), a[6]),
                         lane(a, 6, 8, Len(a) - (Len(a) % 8), a[7]),
                         lane(a, 7, 8, Len(a) - (Len(a) % 8), a[8]) >>}})

\* The doubles of an array of scores without nan, from position p on.
RECURSIVE doubles(_, _)
doubles(scores, p) ==
  IF p > Len(scores) THEN << >>
  ELSE << scores[p][1] >> \o doubles(scores, p + 1)

\* round(x, 4) of a numpy double x, 0 <= x < 2^31 / 10^4: np.round
\* multiplies by 10^4, rounds to the nearest whole number (ties to even)
\* and divides by 10^4.
Round4(x) == float64_div(float64(rint(float64_mul(x, float64(10000)))), 10000)

\* The smallest of the doubles of a from position p on and m.
RECURSIVE minimum(_, _, _)
minimum(a, p, m) ==
  IF p > Len(a) THEN m
  ELSE minimum(a, p + 1, IF float64_less(a[p], m) THEN a[p] ELSE m)

RECURSIVE maximum(_, _, _)
maximum(a, p, m) ==
  IF p > Len(a) THEN m
  ELSE maximum(a, p + 1, IF float64_less(m, a[p]) THEN a[p] ELSE m)

\* round(np.min(cv_results), 4)
np_min(scores) ==
  IF HasNaN(scores) THEN << >>
  ELSE Only({<< Round4(minimum(a, 2, a[1])) >> : a \in {doubles(scores, 1)}})

\* round(np.max(cv_results), 4)
np_max(scores) ==
  IF HasNaN(scores) THEN << >>
  ELSE Only({<< Round4(maximum(a, 2, a[1])) >> : a \in {doubles(scores, 1)}})

\* np.mean of an array of doubles: the sum over the count.
mean(a) == float64_div(np_sum(a), Len(a))

\* round(np.mean(cv_results), 4)
np_mean(scores) ==
  IF HasNaN(scores) THEN << >>
  ELSE << Round4(mean(doubles(scores, 1))) >>

\* x = arr - arrmean; x = x * x, from position p on.
RECURSIVE squared_deviations(_, _, _)
squared_deviations(a, arrmean, p) ==
  IF p > Len(a) THEN << >>
  ELSE Only({<< float64_mul(x, x) >> : x \in {float64_sub(a[p], arrmean)}})
         \o squared_deviations(a, arrmean, p + 1)

\* np.std of an array of doubles: the square root of the mean of the
\* squared deviations from the mean (ddof = 0).
std(a) ==
  Only({float64_sqrt(mean(squared_deviations(a, arrmean, 1))) :
          arrmean \in {mean(a)}})

\* round(np.std(cv_results), 4)
np_std(scores) ==
  IF HasNaN(scores) THEN << >>
  ELSE << Round4(std(doubles(scores, 1))) >>

\* The line the loop prints for one classifier.
summary(name, cv_results) ==
  [name       |-> name,
   mean_score |-> np_mean(cv_results),
   std_dev    |-> np_std(cv_results),
   min_score  |-> np_min(cv_results),
   max_score  |-> np_max(cv_results)]


\* --------------------------------------------------------------- state
VARIABLES
  X,             \* the dataset: row index -> row (features and label)
  cfg,           \* the arguments given to KFold
  pc,            \* where the script is: "kfold", "loop", "cv", "done", "error"
  error,         \* the exception that stopped the script, or "none"
  mi,            \* position of the for loop in models (1-based)
  gen,           \* the generator returned by split.split(X) in the current call
  tasks,         \* fold index -> the fold's _fit_and_score task
  finished,      \* fold indices in the order their tasks completed
  used,          \* per classifier, the folds its tasks were given
  returned,      \* the cv_results array of each completed cross_val_score call
  output,        \* the printed summary lines
  preprocessor,  \* fitted state of the shared ColumnTransformer object
  model_state,   \* fitted state of the classifier objects in models
  calls,         \* splitter specification: the split calls made so far
  pp             \* preprocessor specification: a fit and its transforms

vars == << X, cfg, pc, error, mi, gen, tasks, finished, used,
           returned, output, preprocessor, model_state, calls, pp >>

num_rows == Cardinality(DOMAIN X)

NoGen == [indices |-> << >>, next |-> 0]

PpIdle == [phase |-> "idle", rows |-> << >>, categories |-> NoCategories,
           input |-> << >>, result |-> [ok |-> TRUE, x |-> << >>]]

Objects0 ==
  /\ preprocessor = [fitted |-> FALSE, categories |-> NoCategories]
  /\ model_state = [m \in 1..Len(models) |->
                      [fitted |-> FALSE, classes |-> << >>, estimators |-> << >>]]

Script0 ==
  /\ pc = "kfold" /\ error = "none" /\ mi = 1
  /\ gen = NoGen /\ tasks = << >> /\ finished = << >>
  /\ used = [m \in 1..Len(models) |-> << >>]
  /\ returned = << >> /\ output = << >>
  /\ Objects0

\* ------------------------------------------------------------ the script
Init ==
  /\ \E n \in 2..MaxRows, id \in DatasetIds : X = Dataset(id, n)
  /\ cfg \in [n_splits : 1..(MaxRows + 1), shuffle : BOOLEAN,
              random_state : RandomStates]
  /\ (cfg.shuffle /\ cfg.random_state = << >>) => num_rows <= MaxUnseededRows
  /\ Script0
  /\ calls = << >>
  /\ pp = PpIdle

\* split = KFold(n_splits, shuffle, random_state)
KFoldInit ==
  /\ pc = "kfold"
  /\ IF KFold_init_ok(cfg.n_splits, cfg.shuffle, cfg.random_state)
     THEN pc' = "loop" /\ error' = error
     ELSE /\ pc' = "error"
          /\ error' = KFold_init(cfg.n_splits, cfg.shuffle, cfg.random_state)
  /\ UNCHANGED << X, cfg, mi, gen, tasks, finished, used,
                  returned, output, preprocessor, model_state,
                  calls, pp >>

\* The pipeline object built in the loop body from the shared preprocessor
\* and the classifier object of the list.
steps ==
  [id |-> << "shared" >>, name |-> models[mi],
   pre_fitted |-> preprocessor.fitted, categories |-> preprocessor.categories,
   clf_fitted |-> model_state[mi].fitted, classes |-> model_state[mi].classes,
   estimators |-> model_state[mi].estimators]

\* The loop body up to the first advance of the generator inside
\* cross_val_score: the split's check of n_splits against the number of
\* rows, then the index array (shuffled once, here).
StartCV ==
  /\ pc = "loop" /\ mi <= Len(models)
  /\ IF KFold_split_ok(num_rows, cfg.n_splits)
     THEN \E indices \in KFold_indices(num_rows, cfg.shuffle, cfg.random_state) :
            /\ gen' = [indices |-> indices, next |-> 0]
            /\ pc' = "cv" /\ error' = error
     ELSE /\ pc' = "error" /\ error' = "ValueError: n_splits > n_samples"
          /\ UNCHANGED gen
  /\ tasks' = << >> /\ finished' = << >>
  /\ UNCHANGED << X, cfg, mi, used, returned, output,
                  preprocessor, model_state, calls, pp >>

\* The generator yields the next fold and the fold's task is created with a
\* clone of the pipeline.
Dispatch ==
  /\ pc = "cv" /\ gen.next < cfg.n_splits
  /\ LET f    == gen.next
         fold == KFold_fold(gen.indices, num_rows, cfg.n_splits, f)
     IN /\ tasks' = tasks @@ (f :> [train |-> fold.train, test |-> fold.test,
                                    est |-> clone(steps, f), state |-> "ready",
                                    fit_error |-> FALSE, score |-> << >>])
        /\ used' = [used EXCEPT ![mi] = Append(@, fold)]
        /\ gen' = [gen EXCEPT !.next = f + 1]
  /\ UNCHANGED << X, cfg, pc, error, mi, finished, returned,
                  output, preprocessor, model_state, calls, pp >>

\* The estimator a task works on: its own clone, or the shared pipeline
\* object if that is what it was handed.
Held(t) == IF t.est.id = << "shared" >> THEN steps ELSE t.est

\* _fit_and_score, first half: estimator.fit(X_train, y_train).  With
\* error_score=nan (the default) a failure is recorded and the fold's score
\* is nan.
Fit(f) ==
  /\ pc = "cv" /\ f \in DOMAIN tasks /\ tasks[f].state = "ready"
  /\ \E t \in {tasks[f]} :
     \E r \in {fitted(Held(t), fit_rows(X, t.train))} :
        /\ tasks' = [tasks EXCEPT ![f] =
                       [t EXCEPT !.est = r.est,
                                 !.state = IF r.ok THEN "fitted" ELSE "done",
                                 !.fit_error = ~r.ok]]
        /\ finished' = IF r.ok THEN finished ELSE Append(finished, f)
        /\ IF t.est.id = << "shared" >>
           THEN /\ preprocessor' = [fitted |-> TRUE, categories |-> r.est.categories]
                /\ model_state' = [model_state EXCEPT ![mi] =
                                     [fitted |-> r.est.clf_fitted,
                                      classes |-> r.est.classes,
                                      estimators |-> r.est.estimators]]
           ELSE UNCHANGED << preprocessor, model_state >>
  /\ UNCHANGED << X, cfg, pc, error, mi, gen, used, returned,
                  output, calls, pp >>

\* _fit_and_score, second half: the accuracy of the fitted estimator on the
\* fold's validation rows; a failure of the scorer gives nan.
Score(f) ==
  /\ pc = "cv" /\ f \in DOMAIN tasks /\ tasks[f].state = "fitted"
  /\ \E t \in {tasks[f]} :
     \E score \in scored(Held(t), take(X, t.train), take(X, t.test)) :
       tasks' = [tasks EXCEPT ![f] =
                   [t EXCEPT !.state = "done", !.score = score]]
  /\ finished' = Append(finished, f)
  /\ UNCHANGED << X, cfg, pc, error, mi, gen, used, returned,
                  output, preprocessor, model_state, calls, pp >>

\* A slip: the scores are gathered in the order the tasks completed.
collect_unordered(ts, order) == [p \in 1..Len(order) |-> ts[order[p]].score]

\* Parallel returns the tasks' results in the order they were submitted.
collect(ts, order) == [p \in 1..Len(order) |-> ts[p - 1].score]

AllDone ==
  /\ gen.next = cfg.n_splits
  /\ \A f \in DOMAIN tasks : tasks[f].state = "done"

\* cross_val_score returns and the rest of the loop body runs: if every fit
\* failed a ValueError is raised; otherwise the scores are summarised and
\* the line is printed.
Report ==
  /\ pc = "cv" /\ AllDone
  /\ IF \A f \in DOMAIN tasks : tasks[f].fit_error
     THEN /\ pc' = "error" /\ error' = "ValueError: all fits failed"
          /\ UNCHANGED << mi, returned, output >>
     ELSE \E cv_results \in {collect(tasks, finished)} :
             /\ returned' = Append(returned, cv_results)
             /\ output' = Append(output, summary(models[mi], cv_results))
             /\ mi' = mi + 1
             /\ pc' = IF mi = Len(models) THEN "done" ELSE "loop"
             /\ error' = error
  /\ UNCHANGED << X, cfg, gen, tasks, finished, used,
                  preprocessor, model_state, calls, pp >>

Next ==
  \/ KFoldInit
  \/ StartCV
  \/ Dispatch
  \/ \E f \in DOMAIN tasks : Fit(f)
  \/ \E f \in DOMAIN tasks : Score(f)
  \/ Report

Spec == Init /\ [][Next]_vars

\* ------------------------------------------------ the splitter on its own
InitSplitter ==
  /\ \E n \in 1..MaxSplitRows : X = Dataset("clean", n)
  /\ cfg = [n_splits |-> 4, shuffle |-> TRUE, random_state |-> << 1234 >>]
  /\ Script0
  /\ calls = << >>
  /\ pp = PpIdle

\* One use of a splitter: KFold(n_splits, shuffle, random_state) is built
\* and list(split(X)) is taken.
SplitCall(n_splits, shuffle, random_state) ==
  /\ Len(calls) < MaxCalls
  /\ (shuffle /\ random_state = << >>) => num_rows <= MaxUnseededSplitRows
  /\ \E r \in KFold_split_all(num_rows, n_splits, shuffle, random_state) :
       calls' = Append(calls, [n_splits |-> n_splits, shuffle |-> shuffle,
                               random_state |-> random_state,
                               error |-> r.error, folds |-> r.folds])
  /\ UNCHANGED << X, cfg, pc, error, mi, gen, tasks, finished,
                  used, returned, output, preprocessor, model_state, pp >>

NextSplitter ==
  \E k \in 1..(MaxSplitRows + 1), sh \in BOOLEAN, rs \in RandomStates :
    SplitCall(k, sh, rs)

SpecSplitter == InitSplitter /\ [][NextSplitter]_vars

\* -------------------------------------------- the preprocessor on its own
RowSpace ==
  {[CleanRow(0) EXCEPT !.lead_time = a, !.hotel = b, !.meal = c] :
     a \in {<< >>, << 7 >>},
     b \in {<< >>, << "City Hotel" >>, << "Resort Hotel" >>},
     c \in {<< >>, << "BB" >>, << "HB" >>}}

InitPreprocessor ==
  /\ X = Dataset("clean", 2)
  /\ cfg = [n_splits |-> 4, shuffle |-> TRUE, random_state |-> << 1234 >>]
  /\ Script0
  /\ calls = << >>
  /\ \E m \in 1..MaxFitRows : \E rows \in [1..m -> RowSpace] :
       pp = [PpIdle EXCEPT !.phase = "new", !.rows = rows]

\* preprocessor.fit(rows)
PreFit ==
  /\ pp.phase = "new"
  /\ pp' = [pp EXCEPT !.phase = "fitted", !.categories = preprocessor_fit(pp.rows)]
  /\ UNCHANGED << X, cfg, pc, error, mi, gen, tasks, finished,
                  used, returned, output, preprocessor, model_state,
                  calls >>

\* preprocessor.transform(row)
PreTransform(row) ==
  /\ pp.phase \in {"fitted", "transformed"}
  /\ pp' = [pp EXCEPT !.phase = "transformed", !.input = << row >>,
                      !.result = preprocessor_transform(pp.categories, row)]
  /\ UNCHANGED << X, cfg, pc, error, mi, gen, tasks, finished,
                  used, returned, output, preprocessor, model_state,
                  calls >>

NextPreprocessor == PreFit \/ \E row \in RowSpace : PreTransform(row)

SpecPreprocessor == InitPreprocessor /\ [][NextPreprocessor]_vars


\* ================================================================ claims
Valid(n, k) == 2 <= k /\ k <= n

NoDup(s) == Cardinality(Range(s)) = Len(s)

\* The folds of a call form a k-fold partition of the rows.
IsPartition(folds, k) ==
  LET rows == 0..(num_rows - 1)
  IN /\ Len(folds) = k
     /\ \A p \in 1..Len(folds) :
          /\ NoDup(folds[p].train) /\ NoDup(folds[p].test)
          /\ Range(folds[p].train) \cap Range(folds[p].test) = {}
          /\ Range(folds[p].train) \cup Range(folds[p].test) = rows
     /\ \A i \in rows :
          /\ Cardinality({p \in 1..Len(folds) : i \in Range(folds[p].test)}) = 1
          /\ Cardinality({p \in 1..Len(folds) : i \in Range(folds[p].train)}) = k - 1

\* C1: for 2 <= k <= num_rows, shuffle on or off and any seed, the k folds
\* produced by one split call form a k-fold partition: in each fold train
\* and validation are disjoint and together are 0..num_rows-1, and over the
\* k folds every row index is in validation exactly once and in train
\* exactly k-1 times. A splitter that shuffles (from a seed or from the
\* process-wide generator), and one that neither shuffles nor has a seed,
\* always produces its folds.
C1_KFoldPartition ==
  \A c \in 1..Len(calls) :
    Valid(num_rows, calls[c].n_splits) =>
      /\ (calls[c].shuffle \/ calls[c].random_state = << >>) => ~calls[c].error
      /\ ~calls[c].error => IsPartition(calls[c].folds, calls[c].n_splits)

\* A split shuffled from the notebook's seed whose folds are uneven and whose
\* first validation set is not the first rows, after an unshuffled split
\* that produced its folds.
C1_Witness ==
  /\ Len(calls) = 2
  /\ ~calls[1].shuffle /\ ~calls[1].error
  /\ Valid(num_rows, calls[1].n_splits)
  /\ ~calls[2].error /\ calls[2].shuffle /\ calls[2].random_state = << 1234 >>
  /\ Valid(num_rows, calls[2].n_splits)
  /\ num_rows % calls[2].n_splits # 0
  /\ calls[2].folds[1].test # arange(Len(calls[2].folds[1].test))

\* C2: the splitter is deterministic: two split calls with the same
\* (num_rows, k, shuffle, seed) have the same outcome and return the same
\* folds in the same order, whatever was split in between, both without
\* shuffling and with shuffling from a fixed seed.
C2_SplitDeterministic ==
  \A c \in 1..Len(calls), d \in 1..Len(calls) :
    ( /\ calls[c].n_splits = calls[d].n_splits
      /\ calls[c].shuffle = calls[d].shuffle
      /\ calls[c].random_state = calls[d].random_state
      /\ (calls[c].shuffle => calls[c].random_state # << >>) )
    => /\ calls[c].error = calls[d].error
       /\ calls[c].folds = calls[d].folds

\* Two shuffled calls with the notebook's seed that gave folds other than the
\* unshuffled ones.
C2_Witness ==
  /\ Len(calls) >= 2
  /\ calls[1].n_splits = calls[2].n_splits
  /\ calls[1].shuffle /\ calls[2].shuffle
  /\ calls[1].random_state = << 1234 >> /\ calls[2].random_state = << 1234 >>
  /\ ~calls[2].error
  /\ calls[2].folds \notin
       {r.folds : r \in KFold_split_all(num_rows, calls[2].n_splits, FALSE, << >>)}

\* C3: in the loop over the classifiers, with the splitter seeded as in the
\* notebook (or not shuffling), every classifier is evaluated on the same
\* folds: the i-th fold given to a later classifier equals the i-th fold
\* given to the first, although the splitter is asked once per classifier.
C3_SameFoldsForEveryClassifier ==
  (cfg.shuffle => cfg.random_state # << >>) =>
    \A m \in 1..Len(models), p \in 1..(MaxRows + 1) :
      (p <= Len(used[1]) /\ p <= Len(used[m])) => used[m][p] = used[1][p]

\* The second classifier has been given its folds, and they are shuffled
\* from a seed.
C3_Witness ==
  /\ Len(used[2]) >= 2
  /\ cfg.shuffle /\ cfg.random_state # << >>
  /\ gen.indices # arange(num_rows)

CatValues(c, index) == {imputer(X[index[p]][c]) : p \in 1..Len(index)}

\* C4: for every fold of every classifier the preprocessor is fitted on the
\* fold's train rows only and is not refitted for the validation rows: the
\* fitted category set of each categorical column is exactly the set of
\* imputed values in the fold's train rows, before and after scoring.
C4_FitOnTrainOnly ==
  \A f \in DOMAIN tasks :
    LET t == tasks[f]
    IN /\ t.state = "ready" => ~t.est.pre_fitted
       /\ t.state # "ready" =>
            /\ t.est.pre_fitted
            /\ \A ci \in 1..Len(features_cat) :
                 LET c == features_cat[ci]
                 IN /\ Range(t.est.categories[c]) = CatValues(c, t.train)
                    /\ NoDup(t.est.categories[c])

\* A scored fold whose validation rows hold a category that its train rows
\* do not.
C4_Witness ==
  \E f \in DOMAIN tasks :
    /\ tasks[f].state = "done" /\ tasks[f].score # << >>
    /\ \E ci \in 1..Len(features_cat) :
         CatValues(features_cat[ci], tasks[f].test)
           \ Range(tasks[f].est.categories[features_cat[ci]]) # {}

RECURSIVE BlockOffset(_, _)
BlockOffset(categories, ci) ==
  IF ci = 1 THEN Len(features_num)
  ELSE BlockOffset(categories, ci - 1) + Len(categories[features_cat[ci - 1]])

\* C5: transform never fails on an unseen category: for every categorical
\* column, if the row's value (a missing value replaced by "Unknown") is in
\* the fitted category set the column's block has a single 1, at that
\* category's position, and 0 elsewhere; otherwise the whole block is 0.
C5_UnseenCategoryAllZero ==
  pp.phase = "transformed" =>
    /\ pp.result.ok
    /\ Len(pp.result.x) = BlockOffset(pp.categories, Len(features_cat) + 1)
    /\ \A ci \in 1..Len(features_cat) :
         LET c    == features_cat[ci]
             cats == pp.categories[c]
             v    == imputer(pp.input[1][c])
             off  == BlockOffset(pp.categories, ci)
         IN \A p \in 1..Len(cats) :
              pp.result.x[off + p] = IF cats[p] = v THEN 1 ELSE 0

\* A row with a missing hotel is transformed by a preprocessor that saw no
\* missing hotel, and its meal was seen.
C5_Witness ==
  /\ pp.phase = "transformed"
  /\ pp.input[1].hotel = << >>
  /\ "Unknown" \notin Range(pp.categories["hotel"])
  /\ imputer(pp.input[1].meal) \in Range(pp.categories["meal"])

\* C6: if fitting or scoring fails in a fold of a classifier's evaluation, the
\* run for that classifier is aborted: no summary line is printed for it and
\* no result holding a placeholder score is returned.
C6_FoldFailureAborts ==
  \A m \in 1..Len(output) :
    /\ ~HasNaN(returned[m])
    /\ output[m].mean_score # << >>

\* C7: an invalid fold count (k < 2 or k > num_rows) is rejected before any
\* fold is processed: the script ends in an error raised by the splitter, no
\* estimator is cloned or fitted and nothing is reported.
C7_InvalidFoldCountRejected ==
  ~Valid(num_rows, cfg.n_splits) =>
    /\ pc \in {"kfold", "loop", "error"}
    /\ (cfg.n_splits < 2 => pc # "loop")
    /\ (pc = "error" =>
          error \in {"ValueError: n_splits",
                     "ValueError: random_state without shuffle",
                     "ValueError: n_splits > n_samples"})
    /\ tasks = << >> /\ finished = << >>
    /\ \A m \in 1..Len(models) : used[m] = << >>
    /\ returned = << >> /\ output = << >>

\* The script has stopped on a fold count larger than the number of rows,
\* found when the folds were first asked for.
C7_Witness ==
  /\ pc = "error"
  /\ cfg.n_splits > num_rows
  /\ error = "ValueError: n_splits > n_samples"

\* One fold evaluated on its own from a new estimator: the scores the
\* evaluation can give (the fit is a function of the train rows; a forest's
\* predictions are also a matter of the order in which its threads add).
FitAndScore(name, fold) ==
  LET r == fitted(Unfitted(<< "seq" >>, name), take(X, fold.train))
  IN IF r.ok THEN scored(r.est, take(X, fold.train), take(X, fold.test))
     ELSE {<< >>}

\* The score arrays the m-th classifier can get when it is evaluated fold
\* after fold, in sequence, on the folds the splitter gave it: one such
\* score for every fold, in fold order.
IsSequentialScores(m, scores) ==
  /\ Len(scores) = Len(used[m])
  /\ \A p \in 1..Len(used[m]) : scores[p] \in FitAndScore(models[m], used[m][p])

\* C8: evaluating the folds on parallel workers gives the same result as in
\* sequence, for every interleaving: each task's fold is the one the
\* splitter fixed when the evaluation started, and whenever a
\* cross_val_score call has returned, the scores returned so far are those
\* of a sequential evaluation, in fold order, whatever order the tasks
\* finished in.
C8_ParallelEqualsSequential ==
  /\ \A f \in DOMAIN tasks :
       /\ tasks[f].test = KFold_fold(gen.indices, num_rows, cfg.n_splits, f).test
       /\ tasks[f].train = KFold_fold(gen.indices, num_rows, cfg.n_splits, f).train
  /\ pc \in {"loop", "done"} =>
       \A m \in 1..Len(returned) : IsSequentialScores(m, returned[m])

\* The forest's evaluation has returned: its tasks finished out of fold
\* order, its folds scored differently, and every fold has one score only
\* that a sequential evaluation can give it.
C8_Witness ==
  /\ Len(returned) = 2
  /\ pc \in {"loop", "done"}
  /\ finished # arange(Len(finished))
  /\ \E p, q \in 1..Len(returned[2]) : returned[2][p] # returned[2][q]
  /\ \A p \in 1..Len(used[2]) :
       Cardinality(FitAndScore(models[2], used[2][p])) = 1

\* Every fold works on its own estimator, unfitted until the fold fits it,
\* and the shared preprocessor and the classifier objects of the list are
\* not fitted.
OwnEstimators ==
  /\ ~preprocessor.fitted
  /\ \A m \in 1..Len(models) : ~model_state[m].fitted
  /\ \A f \in DOMAIN tasks :
       /\ tasks[f].est.id = << "fold", f >>
       /\ tasks[f].state = "ready" =>
            tasks[f].est = Unfitted(<< "fold", f >>, tasks[f].est.name)

\* A step that changes a fold's estimator leaves it as fitting a new
\* estimator on the fold's train rows does.
FitsAsNew ==
  \A f \in DOMAIN tasks :
    (f \in DOMAIN tasks' /\ tasks'[f].est # tasks[f].est) =>
      tasks'[f].est = fitted(Unfitted(<< "fold", f >>, tasks[f].est.name),
                             take(X, tasks[f].train)).est

\* C9: no fitted state leaks between folds or classifiers: every fold works
\* on its own clone, which is unfitted until the fold fits it and is then,
\* and stays, what fitting a new estimator on the fold's train rows gives;
\* the shared preprocessor and the classifier objects of the list are never
\* fitted.
C9_NoSharedFittedState == []OwnEstimators /\ [][FitsAsNew]_vars

\* The second classifier's evaluation is under way: one fold is scored,
\* another is fitted and a third is not yet fitted.
C9_Witness ==
  /\ pc = "cv" /\ mi = 2
  /\ \E f, g, h \in DOMAIN tasks :
       /\ tasks[f].state = "done" /\ tasks[f].score # << >>
       /\ tasks[g].state = "fitted"
       /\ tasks[h].state = "ready"

\* C10: for 2 <= k <= num_rows the validation sets of an accepted split are
\* balanced and never empty: there are k of them, each has floor(num_rows/k)
\* or floor(num_rows/k)+1 rows, the first (num_rows mod k) folds being the
\* larger ones.
C10_BalancedNonEmptyFolds ==
  \A c \in 1..Len(calls) :
    LET k == calls[c].n_splits
    IN (Valid(num_rows, k) /\ ~calls[c].error) =>
         /\ Len(calls[c].folds) = k
         /\ \A p \in 1..Len(calls[c].folds) :
              /\ Len(calls[c].folds[p].test) =
                   (num_rows \div k) + (IF p <= num_rows % k THEN 1 ELSE 0)
              /\ Len(calls[c].folds[p].test) >= 1
              /\ Len(calls[c].folds[p].train) = num_rows - Len(calls[c].folds[p].test)

\* An unshuffled split whose folds have two different sizes.
C10_Witness ==
  \E c \in 1..Len(calls) :
    /\ ~calls[c].error /\ ~calls[c].shuffle
    /\ Len(calls[c].folds[1].test) > Len(calls[c].folds[calls[c].n_splits].test)

=============================================================================
